---- MODULE Spec2Model ----
(***************************************************************************)
(* A model of the vehicle-listing acquisition scripts:                     *)
(*   scripts/parse_vehicle_query.py   the deterministic query normalizer   *)
(*   scripts/scrape-autotrader-cdp.py the AutoTrader scraper over CDP      *)
(*   scripts/scrape-truecar.py        the TrueCar two-channel orchestrator *)
(* Text is modelled by TLA+ strings, read character by character; the      *)
(* regular expressions of the scripts are operators over those strings.    *)
(* An optional value is a sequence of length at most one: None is <<>>.    *)
(***************************************************************************)
EXTENDS Integers, Sequences, FiniteSets, TLC

VARIABLES
    \* parse_vehicle_query.py
    query,          \* the raw text handed to parse_with_patterns
    catalog,        \* the filter catalog's global_filters
    structured,     \* result["structured"]
    npc,            \* position of the normalizer: "start" | "done"
    llm_pc,         \* position of parse_with_llm
    llm_available,  \* AsyncOpenAI was imported
    api_key,        \* the api_key argument: None, or Some(text)
    llm_reply,      \* what the completion call brought back
    llm_exit,       \* the return statement parse_with_llm took, "" before
    llm_ret,        \* the value parse_with_llm returned: None, or Some(dict)
    \* scrape-autotrader-cdp.py
    cdp_pc,                 \* position of scrape_autotrader_cdp
    cdp_max_results,        \* its max_results argument
    cdp_browser,            \* the Chrome connection: "none" | "open" | "closed"
    cdp_scroll_attempts,
    cdp_last_listing_count,
    cdp_page_text,          \* page.inner_text('body')
    cdp_listings,           \* the links query_selector_all returned
    cdp_seen_vehicle_ids,
    cdp_unique_listings,
    cdp_skipped_count,
    cdp_i,                  \* index of the extraction loop, from 1
    cdp_results,
    cdp_exit,               \* the return statement taken, "" while running
    cdp_ret,                \* the value returned: None, or Some(list)
    \* scrape-truecar.py
    tc_pc,                  \* position of scrape_truecar
    tc_filters,             \* its search_filters argument
    tc_max_results,         \* its max_results argument
    tc_graphql_calls,       \* calls of scrape_truecar_graphql so far
    tc_camoufox_calls,      \* calls of scrape_truecar_camoufox so far
    tc_graphql_exit,        \* the return statement scrape_truecar_graphql took
    tc_graphql_results,     \* results of scrape_truecar, line 308
    tc_browser,             \* the Camoufox browser: "none" | "open" | "closed"
    tc_argv,                \* the first argument of the script, "" for a call
    tc_search_url,          \* search_url of scrape_truecar_camoufox, "" before
    tc_page_text,           \* the visible text of the page (the script never reads it)
    tc_cards,               \* the cards query_selector_all returned
    tc_i,                   \* index of the extraction loop, from 1
    tc_results,             \* results of scrape_truecar_camoufox
    tc_ret                  \* the value scrape_truecar returned

normVars == <<query, catalog, structured, npc, llm_pc, llm_available, api_key,
              llm_reply, llm_exit, llm_ret>>
cdpVars == <<cdp_pc, cdp_max_results, cdp_browser, cdp_scroll_attempts,
             cdp_last_listing_count, cdp_page_text, cdp_listings,
             cdp_seen_vehicle_ids, cdp_unique_listings, cdp_skipped_count,
             cdp_i, cdp_results, cdp_exit, cdp_ret>>
tcVars == <<tc_pc, tc_filters, tc_max_results, tc_graphql_calls,
            tc_camoufox_calls, tc_graphql_exit, tc_graphql_results, tc_browser,
            tc_argv, tc_search_url, tc_page_text, tc_cards, tc_i, tc_results, tc_ret>>
vars == <<normVars, cdpVars, tcVars>>

-----------------------------------------------------------------------------
(* Optional values *)

None == <<>>
Some(v) == <<v>>
IsSet(o) == o # <<>>
Val(o) == o[1]

-----------------------------------------------------------------------------
(* Strings *)

Ch(s, i) == SubSeq(s, i, i)

Digits == {"0", "1", "2", "3", "4", "5", "6", "7", "8", "9"}
UpperCase == {"A", "B", "C", "D", "E", "F", "G", "H", "I", "J", "K", "L", "M",
              "N", "O", "P", "Q", "R", "S", "T", "U", "V", "W", "X", "Y", "Z"}
LowerCase == {"a", "b", "c", "d", "e", "f", "g", "h", "i", "j", "k", "l", "m",
              "n", "o", "p", "q", "r", "s", "t", "u", "v", "w", "x", "y", "z"}

IsDigit(c) == c \in Digits
\* \s of the regular expressions
IsSpace(c) == c \in {" ", "\n", "\t"}
\* \w of the regular expressions
IsWordChar(c) == c \in Digits \cup UpperCase \cup LowerCase \cup {"_"}

DigitVal(c) ==
    CASE c = "0" -> 0 [] c = "1" -> 1 [] c = "2" -> 2 [] c = "3" -> 3
      [] c = "4" -> 4 [] c = "5" -> 5 [] c = "6" -> 6 [] c = "7" -> 7
      [] c = "8" -> 8 [] c = "9" -> 9

LowerChar(c) ==
    CASE c = "A" -> "a" [] c = "B" -> "b" [] c = "C" -> "c" [] c = "D" -> "d"
      [] c = "E" -> "e" [] c = "F" -> "f" [] c = "G" -> "g" [] c = "H" -> "h"
      [] c = "I" -> "i" [] c = "J" -> "j" [] c = "K" -> "k" [] c = "L" -> "l"
      [] c = "M" -> "m" [] c = "N" -> "n" [] c = "O" -> "o" [] c = "P" -> "p"
      [] c = "Q" -> "q" [] c = "R" -> "r" [] c = "S" -> "s" [] c = "T" -> "t"
      [] c = "U" -> "u" [] c = "V" -> "v" [] c = "W" -> "w" [] c = "X" -> "x"
      [] c = "Y" -> "y" [] c = "Z" -> "z" [] OTHER -> c

UpperChar(c) ==
    CASE c = "a" -> "A" [] c = "b" -> "B" [] c = "c" -> "C" [] c = "d" -> "D"
      [] c = "e" -> "E" [] c = "f" -> "F" [] c = "g" -> "G" [] c = "h" -> "H"
      [] c = "i" -> "I" [] c = "j" -> "J" [] c = "k" -> "K" [] c = "l" -> "L"
      [] c = "m" -> "M" [] c = "n" -> "N" [] c = "o" -> "O" [] c = "p" -> "P"
      [] c = "q" -> "Q" [] c = "r" -> "R" [] c = "s" -> "S" [] c = "t" -> "T"
      [] c = "u" -> "U" [] c = "v" -> "V" [] c = "w" -> "W" [] c = "x" -> "X"
      [] c = "y" -> "Y" [] c = "z" -> "Z" [] OTHER -> c

\* the characters i..j of s in lower case (halving keeps the evaluation
\* shallow on long texts)
RECURSIVE LowerRange(_, _, _)
LowerRange(s, i, j) ==
    IF i > j THEN ""
    ELSE IF i = j THEN LowerChar(Ch(s, i))
    ELSE LowerRange(s, i, (i + j) \div 2) \o LowerRange(s, (i + j) \div 2 + 1, j)
\* str.lower()
Lower(s) == LowerRange(s, 1, Len(s))

RECURSIVE UpperRange(_, _, _)
UpperRange(s, i, j) ==
    IF i > j THEN ""
    ELSE IF i = j THEN UpperChar(Ch(s, i))
    ELSE UpperRange(s, i, (i + j) \div 2) \o UpperRange(s, (i + j) \div 2 + 1, j)
\* str.upper()
Upper(s) == UpperRange(s, 1, Len(s))

\* s[i:].startswith(p), i counted from 1
StartsWithAt(s, i, p) ==
    /\ i >= 1
    /\ i + Len(p) - 1 <= Len(s)
    /\ SubSeq(s, i, i + Len(p) - 1) = p

\* p in s
Contains(s, p) == \E i \in 1..(Len(s) - Len(p) + 1) : StartsWithAt(s, i, p)

\* s.startswith(p)
StartsWith(s, p) == StartsWithAt(s, 1, p)

\* the least index >= i whose character is not white space (Len(s)+1 at the end)
RECURSIVE SkipSpace(_, _)
SkipSpace(s, i) ==
    IF i <= Len(s) /\ IsSpace(Ch(s, i)) THEN SkipSpace(s, i + 1) ELSE i

\* the least index >= i whose character is not a digit: the end of \d* at i
RECURSIVE SkipDigits(_, _)
SkipDigits(s, i) ==
    IF i <= Len(s) /\ IsDigit(Ch(s, i)) THEN SkipDigits(s, i + 1) ELSE i

\* the index after an optional "$" at i: the end of \$? at i
SkipDollar(s, i) == IF StartsWithAt(s, i, "$") THEN i + 1 ELSE i

\* int(s) of a string of digits
RECURSIVE ParseIntFrom(_, _, _)
ParseIntFrom(s, i, acc) ==
    IF i > Len(s) THEN acc
    ELSE ParseIntFrom(s, i + 1, acc * 10 + DigitVal(Ch(s, i)))
ParseInt(s) == ParseIntFrom(s, 1, 0)

\* the least element of a non-empty set of numbers
Least(S) == CHOOSE x \in S : \A y \in S : x <= y

-----------------------------------------------------------------------------
(* parse_vehicle_query.py: parse_with_patterns *)

\* (the pattern without its \$?)
KeywordAtNoDollar(s, i, kw) ==
    IF ~StartsWithAt(s, i, kw) THEN <<>>
    ELSE LET d == SkipSpace(s, i + Len(kw))
             e == SkipDigits(s, d)
         IN  IF e > d THEN <<SubSeq(s, d, e - 1)>> ELSE <<>>

\* keyword\s*\$?(\d+) tried at index i: the groups of the match, <<>> if none
KeywordAt(s, i, kw) ==
    IF ~StartsWithAt(s, i, kw) THEN <<>>
    ELSE LET d == SkipDollar(s, SkipSpace(s, i + Len(kw)))
             e == SkipDigits(s, d)
         IN  IF e > d THEN <<SubSeq(s, d, e - 1)>> ELSE <<>>

\* \$?(\d+)\s*-\s*\$?(\d+) tried at index i
RangeAt(s, i) ==
    LET d1 == SkipDollar(s, i)
        e1 == SkipDigits(s, d1)
        h  == SkipSpace(s, e1)
        d2 == SkipDollar(s, SkipSpace(s, h + 1))
        e2 == SkipDigits(s, d2)
    IN  IF e1 > d1 /\ StartsWithAt(s, h, "-") /\ e2 > d2
        THEN <<SubSeq(s, d1, e1 - 1), SubSeq(s, d2, e2 - 1)>>
        ELSE <<>>

\* between\s*\$?(\d+)\s*and\s*\$?(\d+) tried at index i
BetweenAt(s, i) ==
    IF ~StartsWithAt(s, i, "between") THEN <<>>
    ELSE LET d1 == SkipDollar(s, SkipSpace(s, i + 7))
             e1 == SkipDigits(s, d1)
             a  == SkipSpace(s, e1)
             d2 == SkipDollar(s, SkipSpace(s, a + 3))
             e2 == SkipDigits(s, d2)
         IN  IF e1 > d1 /\ StartsWithAt(s, a, "and") /\ e2 > d2
             THEN <<SubSeq(s, d1, e1 - 1), SubSeq(s, d2, e2 - 1)>>
             ELSE <<>>

\* price_patterns, in the order of the list
price_patterns ==
    <<"under", "below", "less than", "max", "-", "between", "up to">>

PatternAt(s, i, pat) ==
    CASE pat = "-" -> RangeAt(s, i)
      [] pat = "between" -> BetweenAt(s, i)
      [] OTHER -> KeywordAt(s, i, pat)

\* re.search(pattern, s): the groups of the leftmost match, <<>> if none
PatternSearch(s, pat) ==
    LET hits == {i \in 1..Len(s) : PatternAt(s, i, pat) # <<>>}
    IN  IF hits = {} THEN <<>> ELSE PatternAt(s, Least(hits), pat)

\* the for loop over price_patterns from pattern k on: <<minPrice, maxPrice>>
RECURSIVE PriceLoop(_, _)
PriceOfMatch(m) ==
    IF Len(m) = 2 /\ m[2] # ""
    THEN <<Some(ParseInt(m[1])), Some(ParseInt(m[2]))>>
    ELSE <<None, Some(ParseInt(m[1]))>>
PriceLoop(s, k) ==
    IF k > Len(price_patterns) THEN <<None, None>>
    ELSE LET m == PatternSearch(s, price_patterns[k])
         IN  IF m # <<>> THEN PriceOfMatch(m) ELSE PriceLoop(s, k + 1)

\* \b(20\d{2})\b searched in the query as typed
YearAt(s, i) ==
    /\ StartsWithAt(s, i, "20")
    /\ i + 3 <= Len(s)
    /\ IsDigit(Ch(s, i + 2)) /\ IsDigit(Ch(s, i + 3))
    /\ (i = 1 \/ ~IsWordChar(Ch(s, i - 1)))
    /\ (i + 3 = Len(s) \/ ~IsWordChar(Ch(s, i + 4)))
YearSearch(s) ==
    LET hits == {i \in 1..Len(s) : YearAt(s, i)}
    IN  IF hits = {} THEN None
        ELSE Some(ParseInt(SubSeq(s, Least(hits), Least(hits) + 3)))

\* for x in vocabulary: if x.lower() in query_lower: field = x; break
RECURSIVE FirstIn(_, _, _)
FirstIn(voc, k, ql) ==
    IF k > Len(voc) THEN None
    ELSE IF Contains(ql, Lower(voc[k])) THEN Some(voc[k])
    ELSE FirstIn(voc, k + 1, ql)

\* for x in vocabulary: if x.lower() in query_lower: list.append(x)
RECURSIVE AllIn(_, _, _)
AllIn(voc, k, ql) ==
    IF k > Len(voc) THEN <<>>
    ELSE (IF Contains(ql, Lower(voc[k])) THEN <<voc[k]>> ELSE <<>>)
         \o AllIn(voc, k + 1, ql)

\* common_makes, in the order of the dict
common_makes ==
    << <<"gmc", "GMC">>, <<"ford", "Ford">>, <<"chevrolet", "Chevrolet">>,
       <<"chevy", "Chevrolet">>, <<"toyota", "Toyota">>, <<"honda", "Honda">>,
       <<"jeep", "Jeep">>, <<"ram", "Ram">>, <<"dodge", "Dodge">>,
       <<"nissan", "Nissan">>, <<"bmw", "BMW">>, <<"mercedes", "Mercedes">>,
       <<"lexus", "Lexus">>, <<"audi", "Audi">>, <<"cadillac", "Cadillac">>,
       <<"buick", "Buick">>, <<"lincoln", "Lincoln">>, <<"acura", "Acura">>,
       <<"infiniti", "Infiniti">>, <<"volkswagen", "Volkswagen">>,
       <<"volvo", "Volvo">>, <<"subaru", "Subaru">>, <<"mazda", "Mazda">>,
       <<"kia", "Kia">>, <<"hyundai", "Hyundai">>,
       <<"mitsubishi", "Mitsubishi">> >>

\* trim_patterns, in the order of the dict
trim_patterns ==
    << <<"denali ultimate", "Denali Ultimate">>, <<"denali", "Denali">>,
       <<"at4", "AT4">>, <<"lariat", "Lariat">>,
       <<"king ranch", "King Ranch">>, <<"platinum", "Platinum">>,
       <<"limited", "Limited">>, <<"rubicon", "Rubicon">>,
       <<"sahara", "Sahara">>, <<"xle", "XLE">>, <<"xse", "XSE">> >>

\* for key, name in table.items(): if key in query_lower: list.append(name)
RECURSIVE TableMatches(_, _, _)
TableMatches(table, k, ql) ==
    IF k > Len(table) THEN <<>>
    ELSE (IF Contains(ql, table[k][1]) THEN <<table[k][2]>> ELSE <<>>)
         \o TableMatches(table, k + 1, ql)

\* (a chain of ifs: every model name found is appended)
ModelChainOfIfs(ql) ==
    TableMatches(<< <<"sierra", "Sierra">>, <<"silverado", "Silverado">>,
                    <<"f-150", "F-150">>, <<"f150", "F-150">>, <<"rav4", "RAV4">>,
                    <<"cr-v", "CR-V">>, <<"crv", "CR-V">>,
                    <<"wrangler", "Wrangler">>,
                    <<"grand cherokee", "Grand Cherokee">>,
                    <<"tacoma", "Tacoma">>, <<"tundra", "Tundra">>,
                    <<"camry", "Camry">>, <<"corvette", "Corvette">>,
                    <<"mustang", "Mustang">> >>, 1, ql)

\* the if/elif chain of model names
ModelChain(ql) ==
    IF Contains(ql, "sierra") \/ Contains(ql, "silverado") THEN
        IF Contains(ql, "3500") \/ Contains(ql, "1500")
        THEN <<IF Contains(ql, "sierra") THEN "Sierra 3500" ELSE "Silverado 1500">>
        ELSE <<IF Contains(ql, "sierra") THEN "Sierra" ELSE "Silverado">>
    ELSE IF Contains(ql, "f-150") \/ Contains(ql, "f150") THEN <<"F-150">>
    ELSE IF Contains(ql, "rav4") THEN <<"RAV4">>
    ELSE IF Contains(ql, "cr-v") \/ Contains(ql, "crv") THEN <<"CR-V">>
    ELSE IF Contains(ql, "wrangler") THEN <<"Wrangler">>
    ELSE IF Contains(ql, "grand cherokee") THEN <<"Grand Cherokee">>
    ELSE IF Contains(ql, "tacoma") THEN <<"Tacoma">>
    ELSE IF Contains(ql, "tundra") THEN <<"Tundra">>
    ELSE IF Contains(ql, "camry") THEN <<"Camry">>
    ELSE IF Contains(ql, "corvette") THEN <<"Corvette">>
    ELSE IF Contains(ql, "mustang") THEN <<"Mustang">>
    ELSE <<>>

\* result["structured"] as parse_with_patterns starts
EmptyStructured ==
    [makes |-> <<>>, models |-> <<>>, trims |-> <<>>,
     year |-> None, yearMin |-> None, yearMax |-> None,
     minPrice |-> None, maxPrice |-> None,
     drivetrain |-> None, fuelType |-> None, bodyType |-> None,
     transmission |-> None, doors |-> None, cylinders |-> None,
     exteriorColor |-> None, interiorColor |-> None,
     features |-> <<>>,
     location |-> [zip |-> None, distance |-> None, city |-> None, state |-> None]]

parse_with_patterns(q, gf) ==
    LET ql == Lower(q)
        price == PriceLoop(ql, 1)
    IN  [EmptyStructured EXCEPT
            !.minPrice = price[1],
            !.maxPrice = price[2],
            !.year = YearSearch(q),
            !.exteriorColor = FirstIn(gf.exterior_colors, 1, ql),
            !.bodyType = FirstIn(gf.body_types, 1, ql),
            !.drivetrain = FirstIn(gf.drivetrains, 1, ql),
            !.fuelType = FirstIn(gf.fuel_types, 1, ql),
            !.features = AllIn(gf.features, 1, ql),
            !.makes = TableMatches(common_makes, 1, ql),
            !.models = ModelChain(ql),
            !.trims = TableMatches(trim_patterns, 1, ql)]

-----------------------------------------------------------------------------
(* extract_number, the same function in every scraper *)

\* re.sub(r'[^\d,.]', '', text).replace(',', ''): the digits and dots of s
RECURSIVE CleanedRange(_, _, _)
CleanedRange(s, i, j) ==
    IF i > j THEN ""
    ELSE IF i = j THEN (IF IsDigit(Ch(s, i)) \/ Ch(s, i) = "." THEN Ch(s, i) ELSE "")
    ELSE CleanedRange(s, i, (i + j) \div 2) \o CleanedRange(s, (i + j) \div 2 + 1, j)
Cleaned(s) == CleanedRange(s, 1, Len(s))

\* the index of the first c of s at or after i, Len(s)+1 if none
IndexFrom(s, i, c) == Least({k \in i..Len(s) : Ch(s, k) = c} \cup {Len(s) + 1})
DotFrom(s, i) == IndexFrom(s, i, ".")

\* int(float(c)) of a string c of digits and dots; float raises, and the
\* function returns 0, unless c has a digit and at most one dot
IntOfFloat(c) ==
    LET d == DotFrom(c, 1)
    IN  IF Len(c) = 0 \/ c = "." \/ DotFrom(c, d + 1) <= Len(c) THEN 0
        ELSE ParseInt(SubSeq(c, 1, d - 1))

extract_number(text) ==
    IF text = "" THEN 0 ELSE IntOfFloat(Cleaned(text))

\* str.strip()
RECURSIVE RStrip(_)
RStrip(s) ==
    IF Len(s) > 0 /\ IsSpace(Ch(s, Len(s))) THEN RStrip(SubSeq(s, 1, Len(s) - 1))
    ELSE s
Strip(s) == RStrip(SubSeq(s, SkipSpace(s, 1), Len(s)))

\* url.split('#')[0]
BeforeHash(s) == SubSeq(s, 1, IndexFrom(s, 1, "#") - 1)

-----------------------------------------------------------------------------
(* scrape-autotrader-cdp.py: the pure steps of scrape_autotrader_cdp *)

max_scroll_attempts == 15

bot_detection_indicators ==
    <<"page unavailable", "site unavailable", "access denied", "blocked",
      "couldn't find the page", "having trouble", "please try again later",
      "Access to this page has been denied", "you don't have permission",
      "Incident Number:", "We're sorry for any inconvenience">>

no_results_indicators ==
    <<"No matching vehicles", "No results found", "0 results", "No cars found",
      "Try changing your search", "No exact matches">>

\* any(indicator.lower() in page_text.lower() for indicator in ...)
BotDetected(page_text) ==
    \E k \in 1..Len(bot_detection_indicators) :
        Contains(Lower(page_text), Lower(bot_detection_indicators[k]))

\* any(indicator in page_text for indicator in no_results_indicators)
NoResultsFound(page_text) ==
    \E k \in 1..Len(no_results_indicators) :
        Contains(page_text, no_results_indicators[k])

\* (the two checks in the other order)
ClassifyNoResultsFirst(page_text) ==
    IF NoResultsFound(page_text) THEN "NO_RESULTS"
    ELSE IF BotDetected(page_text) THEN "BLOCKED"
    ELSE "USABLE"
\* (the first check alone)
ClassifyBotOnly(page_text) ==
    IF BotDetected(page_text) THEN "BLOCKED" ELSE "USABLE"
\* lines 138-167: the two checks on page_text, in the order of the code
Classify(page_text) ==
    IF BotDetected(page_text) THEN "BLOCKED"
    ELSE IF NoResultsFound(page_text) THEN "NO_RESULTS"
    ELSE "USABLE"

\* re.search(r'/vehicle/(\d+)', url.split('#')[0]): the id, None if no match
VehicleIdAt(u, i) ==
    StartsWithAt(u, i, "/vehicle/") /\ SkipDigits(u, i + 9) > i + 9
VehicleId(url) ==
    LET u == BeforeHash(url)
        hits == {i \in 1..Len(u) : VehicleIdAt(u, i)}
    IN  IF hits = {} THEN None
        ELSE Some(SubSeq(u, Least(hits) + 9, SkipDigits(u, Least(hits) + 9) - 1))

\* the deduplication loop over listings[k..]: <<unique_listings, skipped_count>>
\* as indexes into listings, given seen_vehicle_ids
\* (the loop, were it to let the last link of a vehicle stand for it)
RECURSIVE DedupeFromKeepingLast(_, _, _)
DedupeFromKeepingLast(ls, k, seen) ==
    IF k > Len(ls) THEN <<>>
    ELSE LET id == VehicleId(ls[k].href)
         IN  IF ls[k].href = "" \/ id = None
                \/ \E j \in (k + 1)..Len(ls) : VehicleId(ls[j].href) = id
             THEN DedupeFromKeepingLast(ls, k + 1, seen)
             ELSE <<k>> \o DedupeFromKeepingLast(ls, k + 1, seen)
RECURSIVE DedupeFrom(_, _, _)
DedupeFrom(ls, k, seen) ==
    IF k > Len(ls) THEN <<>>
    ELSE LET id == VehicleId(ls[k].href)
         IN  IF ls[k].href = "" THEN DedupeFrom(ls, k + 1, seen)
             ELSE IF id = None THEN DedupeFrom(ls, k + 1, seen)
             ELSE IF Val(id) \in seen THEN DedupeFrom(ls, k + 1, seen)
             ELSE <<k>> \o DedupeFrom(ls, k + 1, seen \cup {Val(id)})

\* the ancestor walk: all_text of a link whose ancestors' innerText is anc
FirstLong(anc, l, last) ==
    LET hits == {k \in l..last : k <= Len(anc) /\ Len(anc[k]) > 100}
    IN  IF hits = {} THEN "" ELSE anc[Least(hits)]
CardText(anc) ==
    LET hits == {k \in 1..15 : /\ k <= Len(anc)
                               /\ Contains(anc[k], "$")
                               /\ Contains(anc[k], "mi")
                               /\ Len(anc[k]) > 100}
    IN  IF hits = {} THEN "" ELSE anc[Least(hits)]
AllText(anc) ==
    LET first == FirstLong(anc, 1, 12)
    IN  IF first = "" \/ Len(first) < 50
        THEN (IF CardText(anc) # "" /\ Len(CardText(anc)) > Len(first)
              THEN CardText(anc) ELSE first)
        ELSE first

\* the end of [\d,]* at i
RECURSIVE SkipDigitsCommas(_, _)
SkipDigitsCommas(s, i) ==
    IF i <= Len(s) /\ (IsDigit(Ch(s, i)) \/ Ch(s, i) = ",")
    THEN SkipDigitsCommas(s, i + 1) ELSE i

\* re.search(r'\$\s*([\d,]+)', s): group 1, None if no match
DollarAt(s, i) ==
    StartsWithAt(s, i, "$")
        /\ SkipDigitsCommas(s, SkipSpace(s, i + 1)) > SkipSpace(s, i + 1)
DollarAmount(s) ==
    LET hits == {i \in 1..Len(s) : DollarAt(s, i)}
        d == SkipSpace(s, Least(hits) + 1)
    IN  IF hits = {} THEN None
        ELSE Some(SubSeq(s, d, SkipDigitsCommas(s, d) - 1))

\* (\d{1,2},\d{3}) tried at i: the index after the match, 0 if none
GroupedAt(s, i) ==
    LET three(j) == /\ j + 3 <= Len(s) /\ Ch(s, j) = ","
                    /\ IsDigit(Ch(s, j + 1)) /\ IsDigit(Ch(s, j + 2))
                    /\ IsDigit(Ch(s, j + 3))
    IN  IF i > Len(s) \/ ~IsDigit(Ch(s, i)) THEN 0
        ELSE IF i + 1 <= Len(s) /\ IsDigit(Ch(s, i + 1)) /\ three(i + 2) THEN i + 6
        ELSE IF three(i + 1) THEN i + 5
        ELSE 0

\* (\d{5,6}) tried at i: the index after the match, 0 if none
RunAt(s, i) ==
    LET e == SkipDigits(s, i)
    IN  IF e - i >= 6 THEN i + 6 ELSE IF e - i = 5 THEN i + 5 ELSE 0

PlausiblePrice(n) == ~(1900 <= n /\ n <= 2100) /\ 5000 <= n /\ n <= 500000

\* price_candidates of re.finditer from index i on: the plausible prices of
\* the matches, one after the other and never overlapping
RECURSIVE GroupedCandidates(_, _)
GroupedCandidates(s, i) ==
    LET hits == {k \in i..Len(s) : GroupedAt(s, k) # 0}
        b == Least(hits)
        e == GroupedAt(s, b)
        n == extract_number(SubSeq(s, b, e - 1))
    IN  IF hits = {} THEN <<>>
        ELSE (IF PlausiblePrice(n) THEN <<n>> ELSE <<>>) \o GroupedCandidates(s, e)
RECURSIVE RunCandidates(_, _)
RunCandidates(s, i) ==
    LET hits == {k \in i..Len(s) : RunAt(s, k) # 0}
        b == Least(hits)
        e == RunAt(s, b)
        n == extract_number(SubSeq(s, b, e - 1))
    IN  IF hits = {} THEN <<>>
        ELSE (IF PlausiblePrice(n) THEN <<n>> ELSE <<>>) \o RunCandidates(s, e)

\* lines 249-270: the price read from all_text
PriceOf(all_text) ==
    LET m == DollarAmount(all_text)
        grouped == GroupedCandidates(all_text, 1)
        cands == IF grouped # <<>> THEN grouped ELSE RunCandidates(all_text, 1)
    IN  IF m # None THEN extract_number(Val(m))
        ELSE IF cands # <<>> THEN cands[Len(cands)]
        ELSE 0

\* re.search(r'(\d+)\s*mi\b', s, re.IGNORECASE): int(group 1), 0 if no match
MileageAt(s, i) ==
    LET e == SkipDigits(s, i)
        m == SkipSpace(s, e)
    IN  /\ e > i
        /\ m + 1 <= Len(s)
        /\ Lower(SubSeq(s, m, m + 1)) = "mi"
        /\ (m + 1 = Len(s) \/ ~IsWordChar(Ch(s, m + 2)))
MileageOf(all_text) ==
    LET hits == {i \in 1..Len(all_text) : MileageAt(all_text, i)}
    IN  IF hits = {} THEN 0
        ELSE ParseInt(SubSeq(all_text, Least(hits),
                             SkipDigits(all_text, Least(hits)) - 1))

\* the least index >= i whose character is not a letter
RECURSIVE SkipLetters(_, _)
SkipLetters(s, i) ==
    IF i <= Len(s) /\ Ch(s, i) \in UpperCase \cup LowerCase
    THEN SkipLetters(s, i + 1) ELSE i
RECURSIVE SkipLower(_, _)
SkipLower(s, i) ==
    IF i <= Len(s) /\ Ch(s, i) \in LowerCase THEN SkipLower(s, i + 1) ELSE i

DealerBrands == {"Buick", "GMC", "Ford", "Toyota", "Honda", "Chevrolet"}

\* ([A-Z][a-zA-Z]+\s+(?:Buick|GMC|...)\s+(?:[A-Z][a-z]+)?) tried at i: the
\* index after the match, 0 if none
DealerAt(s, i) ==
    LET w == SkipLetters(s, i)
        b == SkipSpace(s, w)
        brands == {x \in DealerBrands : StartsWithAt(s, b, x)}
        be == b + Len(CHOOSE x \in brands : TRUE)
        t == SkipSpace(s, be)
    IN  IF i <= Len(s) /\ Ch(s, i) \in UpperCase /\ w > i + 1 /\ b > w
           /\ brands # {} /\ t > be
        THEN (IF t <= Len(s) /\ Ch(s, t) \in UpperCase /\ SkipLower(s, t + 1) > t + 1
              THEN SkipLower(s, t + 1) ELSE t)
        ELSE 0
LocationOf(all_text) ==
    LET hits == {i \in 1..Len(all_text) : DealerAt(all_text, i) # 0}
    IN  IF hits = {} THEN "AutoTrader"
        ELSE "AutoTrader (" \o SubSeq(all_text, Least(hits),
                                      DealerAt(all_text, Least(hits)) - 1) \o ")"

\* the image script: the first ancestor image served by autotrader.com
ImageOf(imgs) ==
    LET hits == {k \in 1..8 : k <= Len(imgs) /\ Contains(imgs[k], "autotrader.com")}
    IN  IF hits = {} THEN "" ELSE imgs[Least(hits)]

\* lines 202-206: the listing's url
AbsoluteUrl(site, href) ==
    IF StartsWith(href, "http") THEN href ELSE site \o href

\* line 213: the link is not a vehicle's title
SkippedTitle(title) ==
    title = "" \/ Len(title) < 10
        \/ title \in {"No Accidents", "Clean Title", " accident"}

\* the body of the extraction loop for one link: the listing appended to
\* results, <<>> if the link is skipped or has no positive price
ExtractListing(link) ==
    LET title == Strip(link.text)
        all_text == AllText(link.anc)
        price == PriceOf(all_text)
    IN  IF SkippedTitle(title) THEN <<>>
        ELSE IF price > 0
        THEN <<[name |-> title, price |-> price,
                mileage |-> MileageOf(all_text), image |-> ImageOf(link.imgs),
                retailer |-> "AutoTrader",
                url |-> AbsoluteUrl("https://www.autotrader.com",
                                    BeforeHash(link.href)),
                location |-> LocationOf(all_text)]>>
        ELSE <<>>

\* lines 347-358 of main: what is printed for the value result that
\* scrape_autotrader_cdp returned (a page with no listings returns [])
CdpMainOutput(result) ==
    IF result = None THEN [error |-> "Could not connect to Chrome CDP"]
    ELSE IF Val(result) = <<>> THEN [error |-> "No AutoTrader listings found"]
    ELSE [listings |-> Val(result)]

------------------------------------------------------------------------------
(* parse_vehicle_query.py: parse_with_llm *)

\* not (not AsyncOpenAI or not api_key)
\* (the key is not looked at)
LlmUsableAnyKey(available, key) == available

LlmUsable(available, key) == available /\ IsSet(key) /\ Val(key) # ""

\* the index after the JSON string that opens at i, 0 if it does not close
JsonStringEnd(s, i) ==
    IF ~StartsWithAt(s, i, "\"") THEN 0
    ELSE LET C == {j \in (i + 1)..Len(s) : Ch(s, j) = "\""}
         IN  IF C = {} THEN 0 ELSE Least(C) + 1

\* the index after the JSON integer at i, 0 if there is none
JsonNumberEnd(s, i) ==
    LET e == SkipDigits(s, i)
    IN  IF e = i THEN 0
        ELSE IF Ch(s, i) = "0" /\ e > i + 1 THEN i + 1
        ELSE e

\* the index after the JSON value that starts at or after i0, 0 if the text
\* there is no JSON value (strings without escapes, integers)
RECURSIVE JsonValueEnd(_, _)
RECURSIVE JsonMembersEnd(_, _)
RECURSIVE JsonElementsEnd(_, _)
JsonValueEnd(s, i0) ==
    LET i == SkipSpace(s, i0)
    IN  IF i > Len(s) THEN 0
        ELSE IF Ch(s, i) = "{"
        THEN (IF StartsWithAt(s, SkipSpace(s, i + 1), "}")
              THEN SkipSpace(s, i + 1) + 1
              ELSE JsonMembersEnd(s, i + 1))
        ELSE IF Ch(s, i) = "["
        THEN (IF StartsWithAt(s, SkipSpace(s, i + 1), "]")
              THEN SkipSpace(s, i + 1) + 1
              ELSE JsonElementsEnd(s, i + 1))
        ELSE IF Ch(s, i) = "\"" THEN JsonStringEnd(s, i)
        ELSE IF IsDigit(Ch(s, i)) THEN JsonNumberEnd(s, i)
        ELSE IF StartsWithAt(s, i, "null") THEN i + 4
        ELSE IF StartsWithAt(s, i, "true") THEN i + 4
        ELSE IF StartsWithAt(s, i, "false") THEN i + 5
        ELSE 0
JsonMembersEnd(s, i0) ==
    LET k == JsonStringEnd(s, SkipSpace(s, i0))
        c == SkipSpace(s, k)
        v == JsonValueEnd(s, c + 1)
        n == SkipSpace(s, v)
    IN  IF k = 0 \/ ~StartsWithAt(s, c, ":") THEN 0
        ELSE IF v = 0 THEN 0
        ELSE IF StartsWithAt(s, n, "}") THEN n + 1
        ELSE IF StartsWithAt(s, n, ",") THEN JsonMembersEnd(s, n + 1)
        ELSE 0
JsonElementsEnd(s, i0) ==
    LET v == JsonValueEnd(s, i0)
        n == SkipSpace(s, v)
    IN  IF v = 0 THEN 0
        ELSE IF StartsWithAt(s, n, "]") THEN n + 1
        ELSE IF StartsWithAt(s, n, ",") THEN JsonElementsEnd(s, n + 1)
        ELSE 0

\* json.loads(content): the kind of the value, "error" when it raises
JsonLoads(content) ==
    LET i == SkipSpace(content, 1)
        e == JsonValueEnd(content, 1)
    IN  IF e = 0 \/ SkipSpace(content, e) # Len(content) + 1 THEN "error"
        ELSE IF Ch(content, i) = "{" THEN "dict"
        ELSE IF Ch(content, i) = "[" THEN "list"
        ELSE IF Ch(content, i) = "\"" THEN "str"
        ELSE IF IsDigit(Ch(content, i)) THEN "int"
        ELSE IF StartsWithAt(content, i, "null") THEN "None"
        ELSE "bool"

\* content.split('\n', 1)[-1].rsplit('\n', 1)[0]
AfterFirstLine(s) ==
    LET N == {i \in 1..Len(s) : Ch(s, i) = "\n"}
    IN  IF N = {} THEN s ELSE SubSeq(s, Least(N) + 1, Len(s))
BeforeLastLine(s) ==
    LET N == {i \in 1..Len(s) : Ch(s, i) = "\n"}
    IN  IF N = {} THEN s
        ELSE SubSeq(s, 1, (CHOOSE x \in N : \A y \in N : y <= x) - 1)

\* the removal of a markdown code block around the reply (a string of this
\* module cannot hold the backquote: the replies write it as ')
StripFence(content) ==
    IF StartsWith(content, "'''") THEN BeforeLastLine(AfterFirstLine(content))
    ELSE content

\* the text json.loads is given, for a reply that has a text
ReplyText(reply) == StripFence(Strip(reply.content))

\* the body of the try raises: the call raises, the reply has no choice or no
\* text, json.loads raises, or the value takes no item assignment
TryRaises(reply) ==
    \/ reply.kind # "content"
    \/ JsonLoads(ReplyText(reply)) # "dict"

\* what parse_with_patterns returns
PatternsResult(q, c) == [query |-> q, structured |-> parse_with_patterns(q, c)]

\* what the try returns: the object of the reply, with its "query" set
ReplyResult(q, reply) == [query |-> q, json |-> Strip(ReplyText(reply))]

-----------------------------------------------------------------------------
(* Inputs of the normalizer *)

\* the number of fragments a query is made of
MaxFrags == 3

\* the pieces raw queries are put together from
Fragments ==
    {"Under ", "up to ", "between ", " and ", "$", "40", "7", "-", " ",
     "GMC Sierra ", "2022"}

RECURSIVE Queries(_)
Queries(n) ==
    IF n = 0 THEN {""}
    ELSE LET P == Queries(n - 1) IN P \cup {p \o f : p \in P, f \in Fragments}

\* catalog.get('global_filters', {}) of load_filter_catalog: the file is absent,
\* or it lists vocabularies
NoCatalog ==
    [exterior_colors |-> <<>>, body_types |-> <<>>, drivetrains |-> <<>>,
     fuel_types |-> <<>>, features |-> <<>>]
SomeCatalog ==
    [exterior_colors |-> <<"Black", "White">>,
     body_types |-> <<"SUV", "Pickup Truck">>,
     drivetrains |-> <<"4WD", "AWD">>,
     fuel_types |-> <<"Diesel", "Gas">>,
     features |-> <<"Heated Seats", "Sunroof">>]
\* a catalog file with an empty entry in a vocabulary
BlankCatalog ==
    [exterior_colors |-> <<"", "Black">>, body_types |-> <<>>,
     drivetrains |-> <<>>, fuel_types |-> <<>>, features |-> <<"">>]
Catalogs == {NoCatalog, SomeCatalog, BlankCatalog}

\* what the completion call brings back
LlmContents ==
    {"{\"structured\": {\"makes\": [\"GMC\"], \"maxPrice\": 50000}}",
     "  {\"query\": \"x\", \"structured\": {}}\n",
     "{}",
     "'''json\n{\"structured\": {}}\n'''",
     "'''{\"structured\": {}}'''",
     "'''json\n[]\n'''",
     "[]", "null", "42", "\"Sierra\"", "",
     "I cannot parse that.",
     "{\"structured\": }",
     "{\"structured\": {}} done"}
NoReply == [kind |-> "none", content |-> ""]
Replies ==
    {[kind |-> k, content |-> ""] : k \in {"raises", "no_choices", "no_content"}}
        \cup {[kind |-> "content", content |-> c] : c \in LlmContents}
ApiKeys == {None, Some(""), Some("sk-test")}
LlmQueries == {"", "GMC Sierra Denali under $50000", "2022 chevy 7-40"}

LlmIdle ==
    /\ llm_pc = "idle"
    /\ llm_available = FALSE
    /\ api_key = None
    /\ llm_reply = NoReply
    /\ llm_exit = ""
    /\ llm_ret = None

NormInitLlm ==
    /\ query \in LlmQueries
    /\ catalog \in Catalogs
    /\ structured = EmptyStructured
    /\ npc = "idle"
    /\ llm_pc = "start"
    /\ llm_available \in BOOLEAN
    /\ api_key \in ApiKeys
    /\ llm_reply = NoReply
    /\ llm_exit = ""
    /\ llm_ret = None

NormIdle ==
    /\ query = ""
    /\ catalog = NoCatalog
    /\ structured = EmptyStructured
    /\ npc = "idle"
    /\ LlmIdle

NormInit ==
    /\ query \in Queries(MaxFrags)
    /\ catalog \in Catalogs
    /\ structured = EmptyStructured
    /\ npc = "start"
    /\ LlmIdle

\* queries made of price phrases
MaxPhrases == 2
PricePhrases ==
    {"under $40", "Below 7", "less than $40", "max 7", "up to $40", "7-40",
     "between $7 and 40", "2018-2022 model"}
RECURSIVE PhraseQueries(_)
PhraseQueries(n) ==
    IF n = 0 THEN {""}
    ELSE LET P == PhraseQueries(n - 1)
         IN  P \cup {p \o " " \o f : p \in P, f \in PricePhrases}

\* queries made of the names of makes, models and trims
MaxWords == 2
NameWords ==
    {"Sierra", "silverado", "1500", "F-150", "f150", "RAV4", "cr-v", "crv",
     "wrangler", "Grand Cherokee", "tacoma", "tundra", "Camry", "corvette",
     "mustang", "Chevy", "chevrolet", "denali ultimate"}
RECURSIVE WordQueries(_)
WordQueries(n) ==
    IF n = 0 THEN {""}
    ELSE LET P == WordQueries(n - 1)
         IN  P \cup {p \o f \o " " : p \in P, f \in NameWords}

\* the queries "GMC Sierra Denali under $N"
MaxPrice == 40
ScenarioPrices == (1..MaxPrice) \cup {2022, 50000}
ScenarioQuery(n) == "GMC Sierra Denali under $" \o ToString(n)

NormInitPhrases ==
    /\ query \in PhraseQueries(MaxPhrases)
    /\ catalog \in Catalogs
    /\ structured = EmptyStructured
    /\ npc = "start"
    /\ LlmIdle

NormInitWords ==
    /\ query \in WordQueries(MaxWords)
    /\ catalog \in Catalogs
    /\ structured = EmptyStructured
    /\ npc = "start"
    /\ LlmIdle

NormInitScenario ==
    /\ query \in {ScenarioQuery(n) : n \in ScenarioPrices}
    /\ catalog \in Catalogs
    /\ structured = EmptyStructured
    /\ npc = "start"
    /\ LlmIdle

\* one call of parse_with_patterns(query, catalog)
ParseWithPatterns ==
    /\ npc = "start"
    /\ structured' = parse_with_patterns(query, catalog)
    /\ npc' = "done"
    /\ UNCHANGED <<query, catalog>>
    /\ UNCHANGED <<llm_pc, llm_available, api_key, llm_reply, llm_exit, llm_ret>>
    /\ UNCHANGED <<cdpVars, tcVars>>

\* parse_with_llm up to the completion call
ParseWithLlmEntry ==
    /\ llm_pc = "start"
    /\ IF LlmUsable(llm_available, api_key)
       THEN /\ llm_pc' = "awaiting"
            /\ UNCHANGED <<llm_exit, llm_ret>>
       ELSE /\ llm_pc' = "returned"
            /\ llm_exit' = "unavailable"
            /\ llm_ret' = Some(PatternsResult(query, catalog))
    /\ UNCHANGED <<query, catalog, structured, npc, llm_available, api_key,
                   llm_reply>>
    /\ UNCHANGED <<cdpVars, tcVars>>

\* the completion call ends, and parse_with_llm with it
ParseWithLlmReply ==
    /\ llm_pc = "awaiting"
    /\ \E reply \in Replies :
          /\ llm_reply' = reply
          /\ IF TryRaises(reply)
             THEN /\ llm_exit' = "failed"
                  /\ llm_ret' = Some(PatternsResult(query, catalog))
             ELSE /\ llm_exit' = "parsed"
                  /\ llm_ret' = Some(ReplyResult(query, reply))
    /\ llm_pc' = "returned"
    /\ UNCHANGED <<query, catalog, structured, npc, llm_available, api_key>>
    /\ UNCHANGED <<cdpVars, tcVars>>

-----------------------------------------------------------------------------
(* scrape-autotrader-cdp.py: scrape_autotrader_cdp, step by step *)

\* the largest max_results a caller passes
MaxResults == 2
\* the number of vehicle links a page holds
MaxLinks == 3

\* listings[:n]
Prefix(seq, n) ==
    IF n >= 0 THEN SubSeq(seq, 1, IF n < Len(seq) THEN n ELSE Len(seq))
    ELSE SubSeq(seq, 1, Len(seq) + n)

\* the text of a listing card, longer than the 100 characters the ancestor
\* walk asks for
CardTail ==
    "\nDublin Buick GMC\nConfirm Availability\nContact the dealer for delivery options and more details.\n"
CardPriced == "Used 2021 GMC Sierra 1500 Denali\n$103,615\n60,000 mi" \o CardTail
CardUnpriced == "Used 2019 Ford F-150 Lariat\nCall for price\n32 mi away" \o CardTail
CardGrouped == "New 2026 GMC Sierra 3500 Denali Ultimate\n45,999\n12 mi" \o CardTail
CardSixDigits == "New 2026 GMC Sierra 3500 Denali Ultimate\n103,615\n12 mi" \o CardTail

\* the links a page may hold, each with its href, its own text, the innerText
\* of its ancestors from the parent up, and the first image of each ancestor
SampleLinks ==
    { [href |-> "/cars-for-sale/vehicle/77#img", text |-> "",
       anc |-> <<"", CardPriced>>,
       imgs |-> <<"https://images.autotrader.com/77.jpg">>],
      [href |-> "/cars-for-sale/vehicle/77?clickType=listing",
       text |-> " Used 2021 GMC Sierra 1500 Denali\n",
       anc |-> <<"Used 2021 GMC Sierra 1500 Denali", CardPriced>>,
       imgs |-> <<"", "https://images.autotrader.com/77.jpg">>],
      [href |-> "https://www.autotrader.com/cars-for-sale/vehicle/8",
       text |-> "Used 2019 Ford F-150 Lariat",
       anc |-> <<CardUnpriced>>, imgs |-> <<>>],
      [href |-> "/cars-for-sale/vehicle/8#photos",
       text |-> "New 2026 GMC Sierra 3500 Denali Ultimate",
       anc |-> <<CardGrouped>>, imgs |-> <<>>],
      [href |-> "/cars-for-sale/vehicle/9",
       text |-> "New 2026 GMC Sierra 3500 Denali Ultimate",
       anc |-> <<CardSixDigits>>, imgs |-> <<>>],
      [href |-> "/cars-for-sale/vehicle/new",
       text |-> "Used 2021 GMC Sierra 1500 Denali",
       anc |-> <<CardPriced>>, imgs |-> <<>>],
      [href |-> "/cars-for-sale/vehicle/new",
       text |-> "New 2026 GMC Sierra 3500 Denali Ultimate",
       anc |-> <<CardGrouped>>, imgs |-> <<>>] }

RECURSIVE LinkSeqs(_)
LinkSeqs(n) ==
    IF n = 0 THEN {<<>>}
    ELSE LET P == LinkSeqs(n - 1)
         IN  P \cup {Append(p, l) : p \in P, l \in SampleLinks}

\* the pieces the visible text of a page is made of, in page order
PageFragments ==
    <<"Access to this page has been denied", "ACCESS DENIED", "No results found",
      "no results found for your search", "Used 2021 GMC Sierra 1500 Denali">>

RECURSIVE JoinSelected(_, _)
JoinSelected(S, k) ==
    IF k > Len(PageFragments) THEN ""
    ELSE (IF k \in S THEN PageFragments[k] \o "\n" ELSE "")
         \o JoinSelected(S, k + 1)
PageTexts == {JoinSelected(S, 1) : S \in SUBSET (1..Len(PageFragments))}

CdpIdle ==
    /\ cdp_pc = "idle"
    /\ cdp_max_results = 0
    /\ cdp_browser = "none"
    /\ cdp_scroll_attempts = 0
    /\ cdp_last_listing_count = 0
    /\ cdp_page_text = ""
    /\ cdp_listings = <<>>
    /\ cdp_seen_vehicle_ids = {}
    /\ cdp_unique_listings = <<>>
    /\ cdp_skipped_count = 0
    /\ cdp_i = 0
    /\ cdp_results = <<>>
    /\ cdp_exit = ""
    /\ cdp_ret = None

\* the call scrape_autotrader_cdp(query, max_results, cdp_url) as it starts
CdpInit ==
    /\ cdp_pc = "connect"
    /\ cdp_max_results \in 1..MaxResults
    /\ cdp_browser = "none"
    /\ cdp_scroll_attempts = 0
    /\ cdp_last_listing_count = 0
    /\ cdp_page_text = ""
    /\ cdp_listings = <<>>
    /\ cdp_seen_vehicle_ids = {}
    /\ cdp_unique_listings = <<>>
    /\ cdp_skipped_count = 0
    /\ cdp_i = 0
    /\ cdp_results = <<>>
    /\ cdp_exit = ""
    /\ cdp_ret = None

\* a return statement of the function
CdpReturn(exit, value) ==
    /\ cdp_pc' = "returned"
    /\ cdp_exit' = exit
    /\ cdp_ret' = value

\* lines 44-57: connect over CDP and take a page, or return None
CdpConnect ==
    /\ cdp_pc = "connect"
    /\ \E connected \in BOOLEAN :
          IF connected
          THEN /\ cdp_browser' = "open"
               /\ cdp_pc' = "goto"
               /\ UNCHANGED <<cdp_exit, cdp_ret>>
          ELSE /\ CdpReturn("connect_failed", None)
               /\ UNCHANGED cdp_browser
    /\ UNCHANGED <<cdp_max_results, cdp_scroll_attempts, cdp_last_listing_count,
                   cdp_page_text, cdp_listings, cdp_seen_vehicle_ids,
                   cdp_unique_listings, cdp_skipped_count, cdp_i, cdp_results>>
    /\ UNCHANGED <<normVars, tcVars>>

\* lines 60-101: the home page, the search page, the wait for the links
CdpGoto ==
    /\ cdp_pc = "goto"
    /\ cdp_pc' = "scroll"
    /\ cdp_last_listing_count' = 0
    /\ cdp_scroll_attempts' = 0
    /\ UNCHANGED <<cdp_max_results, cdp_browser, cdp_page_text, cdp_listings,
                   cdp_seen_vehicle_ids, cdp_unique_listings, cdp_skipped_count,
                   cdp_i, cdp_results, cdp_exit, cdp_ret>>
    /\ UNCHANGED <<normVars, tcVars>>

\* (the loop stops on enough links only)
StopScrollingWhenEnough(current_count, max_results, last_listing_count) ==
    current_count >= max_results

\* line 110: enough links, or no more links than at the turn before
StopScrolling(current_count, max_results, last_listing_count) ==
    current_count >= max_results \/ current_count = last_listing_count

\* lines 103-122: one turn of the scroll loop, the page showing current_count
\* links; the loop is left by its break or by its condition. The two counters
\* are locals of the loop, read nowhere after it: the state keeps them while
\* the loop runs and drops them (0) as it is left.
CdpScroll ==
    /\ cdp_pc = "scroll"
    /\ IF cdp_scroll_attempts < max_scroll_attempts
       THEN \E current_count \in 0..MaxLinks :
              IF StopScrolling(current_count, cdp_max_results,
                               cdp_last_listing_count)
              THEN /\ cdp_pc' = "classify"
                   /\ cdp_last_listing_count' = 0
                   /\ cdp_scroll_attempts' = 0
              ELSE /\ cdp_last_listing_count' = current_count
                   /\ cdp_scroll_attempts' = cdp_scroll_attempts + 1
                   /\ UNCHANGED cdp_pc
       ELSE /\ cdp_pc' = "classify"
            /\ cdp_last_listing_count' = 0
            /\ cdp_scroll_attempts' = 0
    /\ UNCHANGED <<cdp_max_results, cdp_browser, cdp_page_text, cdp_listings,
                   cdp_seen_vehicle_ids, cdp_unique_listings, cdp_skipped_count,
                   cdp_i, cdp_results, cdp_exit, cdp_ret>>
    /\ UNCHANGED <<normVars, tcVars>>

\* lines 124-167: read the page's text and return [] on a bot-detection or a
\* no-results indicator
CdpClassify ==
    /\ cdp_pc = "classify"
    /\ \E text \in PageTexts :
          /\ cdp_page_text' = text
          /\ CASE Classify(text) = "BLOCKED" -> CdpReturn("blocked", Some(<<>>))
               [] Classify(text) = "NO_RESULTS" -> CdpReturn("no_results", Some(<<>>))
               [] OTHER -> /\ cdp_pc' = "query"
                           /\ UNCHANGED <<cdp_exit, cdp_ret>>
    /\ UNCHANGED <<cdp_max_results, cdp_browser, cdp_scroll_attempts,
                   cdp_last_listing_count, cdp_listings, cdp_seen_vehicle_ids,
                   cdp_unique_listings, cdp_skipped_count, cdp_i, cdp_results>>
    /\ UNCHANGED <<normVars, tcVars>>

\* lines 169-175: the vehicle links of the page; return [] if there is none.
\* page_text is read by the two checks above and nowhere after them: the
\* state drops it ("") here.
CdpQueryListings ==
    /\ cdp_pc = "query"
    /\ \E ls \in LinkSeqs(MaxLinks) :
          /\ cdp_listings' = ls
          /\ IF ls = <<>> THEN CdpReturn("no_listings", Some(<<>>))
             ELSE /\ cdp_pc' = "dedupe"
                  /\ UNCHANGED <<cdp_exit, cdp_ret>>
    /\ cdp_page_text' = ""
    /\ UNCHANGED <<cdp_max_results, cdp_browser, cdp_scroll_attempts,
                   cdp_last_listing_count, cdp_seen_vehicle_ids,
                   cdp_unique_listings, cdp_skipped_count, cdp_i, cdp_results>>
    /\ UNCHANGED <<normVars, tcVars>>

\* the vehicle ids of the links ls[d[1]], ls[d[2]], ...
IdsOf(ls, d) == {Val(VehicleId(ls[d[k]].href)) : k \in 1..Len(d)}

\* lines 177-198: the deduplication loop
CdpDedupe ==
    /\ cdp_pc = "dedupe"
    /\ LET d == DedupeFrom(cdp_listings, 1, {})
       IN  /\ cdp_unique_listings' = [k \in 1..Len(d) |-> cdp_listings[d[k]]]
           /\ cdp_seen_vehicle_ids' = IdsOf(cdp_listings, d)
           /\ cdp_skipped_count' =
                 Cardinality({k \in 1..Len(cdp_listings) :
                     /\ cdp_listings[k].href # ""
                     /\ VehicleId(cdp_listings[k].href) # None
                     /\ \A j \in 1..Len(d) : d[j] # k})
    /\ cdp_pc' = "extract"
    /\ cdp_i' = 1
    /\ UNCHANGED <<cdp_max_results, cdp_browser, cdp_scroll_attempts,
                   cdp_last_listing_count, cdp_page_text, cdp_listings,
                   cdp_results, cdp_exit, cdp_ret>>
    /\ UNCHANGED <<normVars, tcVars>>

\* lines 200-324: one turn of the extraction loop; an exception raised by the
\* page while the link is read is caught and the loop goes on
CdpExtract ==
    /\ cdp_pc = "extract"
    /\ cdp_i <= Len(Prefix(cdp_unique_listings, cdp_max_results))
    /\ \E raised \in BOOLEAN :
          cdp_results' = IF raised THEN cdp_results
                         ELSE cdp_results \o ExtractListing(cdp_unique_listings[cdp_i])
    /\ cdp_i' = cdp_i + 1
    /\ UNCHANGED <<cdp_pc, cdp_max_results, cdp_browser, cdp_scroll_attempts,
                   cdp_last_listing_count, cdp_page_text, cdp_listings,
                   cdp_seen_vehicle_ids, cdp_unique_listings, cdp_skipped_count,
                   cdp_exit, cdp_ret>>
    /\ UNCHANGED <<normVars, tcVars>>

\* line 334: the loop is over, return results (the browser is left open)
CdpFinish ==
    /\ cdp_pc = "extract"
    /\ cdp_i > Len(Prefix(cdp_unique_listings, cdp_max_results))
    /\ CdpReturn("end", Some(cdp_results))
    /\ UNCHANGED <<cdp_max_results, cdp_browser, cdp_scroll_attempts,
                   cdp_last_listing_count, cdp_page_text, cdp_listings,
                   cdp_seen_vehicle_ids, cdp_unique_listings, cdp_skipped_count,
                   cdp_i, cdp_results>>
    /\ UNCHANGED <<normVars, tcVars>>

\* lines 326-334: an exception of the page outside the extraction loop's try
\* is caught, and results is returned as it stands
CdpError ==
    /\ cdp_pc \in {"goto", "scroll", "classify", "query", "dedupe"}
    /\ CdpReturn("error", Some(cdp_results))
    /\ cdp_scroll_attempts' = 0
    /\ cdp_last_listing_count' = 0
    /\ cdp_page_text' = ""
    /\ UNCHANGED <<cdp_max_results, cdp_browser, cdp_listings,
                   cdp_seen_vehicle_ids, cdp_unique_listings, cdp_skipped_count,
                   cdp_i, cdp_results>>
    /\ UNCHANGED <<normVars, tcVars>>

-----------------------------------------------------------------------------
(* scrape-truecar.py: the filters and the GraphQL channel *)

\* search_filters is a function from the keys of the JSON object to optional
\* strings: a key held with the value null is mapped to None.  The empty
\* object, and None as the argument, are the function of no key.

\* search_filters.get(k)
Get(f, k) == IF k \in DOMAIN f THEN f[k] ELSE None
\* search_filters.get(k, '')
GetOr(f, k) == IF k \in DOMAIN f THEN f[k] ELSE Some("")
\* the truth value of an optional string or an optional list
Truthy(o) == IsSet(o) /\ Len(Val(o)) > 0

\* sep.join(parts)
RECURSIVE JoinWith(_, _)
JoinWith(parts, sep) ==
    IF Len(parts) = 0 THEN ""
    ELSE IF Len(parts) = 1 THEN parts[1]
    ELSE parts[1] \o sep \o JoinWith(Tail(parts), sep)

\* lines 46-54: the values of the keys that are set, in the order of keys
RECURSIVE QueryParts(_, _, _)
QueryParts(f, keys, k) ==
    IF k > Len(keys) THEN <<>>
    ELSE (IF Truthy(Get(f, keys[k])) THEN <<Val(Get(f, keys[k]))>> ELSE <<>>)
         \o QueryParts(f, keys, k + 1)

\* line 56: search_query
SearchQuery(f) ==
    LET query_parts == QueryParts(f, <<"make", "model", "year", "series">>, 1)
    IN  IF Len(query_parts) > 0 THEN Some(JoinWith(query_parts, " ")) ELSE None

\* `x or 0` of an optional number
OrZero(o) == IF IsSet(o) /\ Val(o) # 0 THEN Val(o) ELSE 0

\* lines 105-120: the listing appended for one edge of the response
GraphqlListing(edge) ==
    [name |-> Strip(edge.year \o " " \o edge.make \o " " \o edge.model),
     price |-> OrZero(edge.listPrice),
     mileage |-> OrZero(edge.mileage),
     image |-> "",
     retailer |-> "TrueCar",
     url |-> "https://www.truecar.com",
     location |-> "TrueCar"]

\* The answer of the environment to one call of the GraphQL channel:
\*   aiohttp  the import of line 32 succeeds
\*   raised   the request, the read of its body or the loop raises (a timeout
\*            is one such exception)
\*   status   resp.status
\*   errors   'errors' in response
\*   edges    response.data.vehicleSearch.edges
\* The return statement of scrape_truecar_graphql that is taken:
GraphqlExit(f, resp) ==
    IF ~resp.aiohttp THEN "import_error"
    ELSE IF ~Truthy(SearchQuery(f)) THEN "no_query"
    ELSE IF resp.raised THEN "exception"
    ELSE IF resp.status # 200 THEN "status"
    ELSE IF resp.errors THEN "errors"
    ELSE IF Len(resp.edges) = 0 THEN "empty"
    ELSE "ok"

\* a channel that returns the listings of a response with an errors key
GraphqlKeepingErrors(f, resp) ==
    IF GraphqlExit(f, resp) \in {"ok", "errors"} /\ Len(resp.edges) > 0
    THEN Some([k \in 1..Len(resp.edges) |-> GraphqlListing(resp.edges[k])])
    ELSE None

\* lines 27-127: the value scrape_truecar_graphql returns
scrape_truecar_graphql(f, resp) ==
    IF GraphqlExit(f, resp) = "ok"
    THEN Some([k \in 1..Len(resp.edges) |-> GraphqlListing(resp.edges[k])])
    ELSE None

-----------------------------------------------------------------------------
(* scrape-truecar.py: the Camoufox channel *)

\* lines 190, 200, 208: search_filters.get(k, '') is None for a key held with
\* null, and None has no lower() nor upper()
CamoufoxUrlRaises(f) ==
    \E k \in {"bodyStyle", "drivetrain", "fuelType"} : ~IsSet(GetOr(f, k))

\* json.loads of the members of a flat object, from index i on: the function
\* from its keys to its values, each a string or null
RECURSIVE JsonMembers(_, _)
JsonMembers(s, i0) ==
    LET i == SkipSpace(s, i0)
        k == JsonStringEnd(s, i)
        v == SkipSpace(s, SkipSpace(s, k) + 1)
        e == JsonValueEnd(s, v)
        key == SubSeq(s, i + 1, k - 2)
        value == IF Ch(s, v) = "\"" THEN Some(SubSeq(s, v + 1, e - 2)) ELSE None
    IN  IF StartsWithAt(s, i, "}") THEN <<>>
        ELSE (key :> value)
                 @@ (IF StartsWithAt(s, SkipSpace(s, e), ",")
                     THEN JsonMembers(s, SkipSpace(s, e) + 1) ELSE <<>>)

\* json.loads(arg) of line 325 for a text that is a flat JSON object
JsonObject(arg) == JsonMembers(arg, SkipSpace(arg, 1) + 1)

\* json.loads(arg) is a value other than an object that is false
FalsyJson(arg) == Strip(arg) \in {"null", "\"\"", "0", "[]", "false"}

\* s.replace(a, b) for a single character a
RECURSIVE ReplaceChar(_, _, _)
ReplaceChar(s, a, b) ==
    IF s = "" THEN ""
    ELSE (IF Ch(s, 1) = a THEN b ELSE Ch(s, 1)) \o ReplaceChar(Tail(s), a, b)

\* lines 145-147: the text of a filter in lower case, '' when it is not set
LowerOrEmpty(f, k) == IF Truthy(Get(f, k)) THEN Lower(Val(Get(f, k))) ELSE ""

\* lines 145-163: mmt_value
MmtValue(f) ==
    LET make == LowerOrEmpty(f, "make")
        model == ReplaceChar(LowerOrEmpty(f, "model"), " ", "-")
        series == LowerOrEmpty(f, "series")
        trims == IF "trims" \in DOMAIN f THEN f["trims"] ELSE Some(<<>>)
        base == IF make # "" /\ model # "" THEN make \o "_" \o model ELSE ""
        with_series == IF series # "" THEN base \o "-" \o series ELSE base
    IN  IF Truthy(trims)
        THEN with_series \o "_" \o ReplaceChar(Lower(Val(trims)[1]), " ", "-")
        ELSE with_series

\* the parameter one of bodyStyle, drivetrain, fuelType adds: the first
\* choice whose keys the text holds
ChoiceParam(text, choices) ==
    LET hits == {c \in 1..Len(choices) :
                    \E key \in choices[c].keys : Contains(text, key)}
    IN  IF text = "" \/ hits = {} THEN <<>> ELSE <<choices[Least(hits)].param>>

\* lines 166-215: params (for filters that do not raise)
UrlParams(f) ==
    LET year == Get(f, "year")
        budget == Get(f, "budget")
    IN  (IF MmtValue(f) # "" THEN <<"mmt[]=" \o MmtValue(f)>> ELSE <<>>)
        \o <<"searchRadius=5000", "state=ca", "city=south-san-francisco">>
        \o (IF Truthy(year)
            THEN <<"yearHigh=" \o Val(year), "yearLow=" \o Val(year)>> ELSE <<>>)
        \o (IF Truthy(budget)
            THEN <<"price_high=" \o Val(budget), "price_low=2000">> ELSE <<>>)
        \o ChoiceParam(Lower(Val(GetOr(f, "bodyStyle"))),
              << [keys |-> {"truck", "pickup"}, param |-> "bodyStyles[]=truck"],
                 [keys |-> {"suv"}, param |-> "bodyStyles[]=suv"],
                 [keys |-> {"sedan"}, param |-> "bodyStyles[]=sedan"] >>)
        \o ChoiceParam(Upper(Val(GetOr(f, "drivetrain"))),
              << [keys |-> {"4WD", "AWD"}, param |-> "driveTrain[]=4WD"],
                 [keys |-> {"2WD", "RWD"}, param |-> "driveTrain[]=2WD"] >>)
        \o ChoiceParam(Lower(Val(GetOr(f, "fuelType"))),
              << [keys |-> {"diesel"}, param |-> "fuelType[]=Diesel"],
                 [keys |-> {"electric"}, param |-> "fuelType[]=Electric"],
                 [keys |-> {"hybrid"}, param |-> "fuelType[]=Hybrid"] >>)

\* lines 226-232: the terms of the text search, joined with "+"
TextSearchQuery(f) ==
    JoinWith(QueryParts(f, <<"year", "make", "model", "series">>, 1), "+")

\* lines 217-233: search_url
SearchUrl(f) ==
    LET make == LowerOrEmpty(f, "make")
        model == ReplaceChar(LowerOrEmpty(f, "model"), " ", "-")
    IN  IF UrlParams(f) # <<>>
        THEN "https://www.truecar.com/used-cars-for-sale/listings/inventory/?"
                 \o JoinWith(UrlParams(f), "&")
        ELSE IF make # "" /\ model # ""
        THEN "https://www.truecar.com/used-cars-for-sale/listings/"
                 \o make \o "/" \o model \o "/"
        ELSE "https://www.truecar.com/used-cars-for-sale/listings/?searchQuery="
                 \o TextSearchQuery(f)

\* re.search(r'\b(19|20)\d{2}\b', s) tried at i
TcYearAt(s, i) ==
    /\ StartsWithAt(s, i, "19") \/ StartsWithAt(s, i, "20")
    /\ i + 3 <= Len(s)
    /\ IsDigit(Ch(s, i + 2)) /\ IsDigit(Ch(s, i + 3))
    /\ (i = 1 \/ ~IsWordChar(Ch(s, i - 1)))
    /\ (i + 3 = Len(s) \/ ~IsWordChar(Ch(s, i + 4)))
TcYearMatch(s) ==
    LET hits == {i \in 1..Len(s) : TcYearAt(s, i)}
    IN  IF hits = {} THEN None ELSE Some(SubSeq(s, Least(hits), Least(hits) + 3))

\* re.search(r'(\d+[,\d]*)\s*mi', s, re.IGNORECASE) tried at i
TcMileageAt(s, i) ==
    LET m == SkipSpace(s, SkipDigitsCommas(s, i))
    IN  /\ i <= Len(s) /\ IsDigit(Ch(s, i))
        /\ m + 1 <= Len(s)
        /\ Lower(SubSeq(s, m, m + 1)) = "mi"
\* lines 263-264
TcMileageOf(s) ==
    LET hits == {i \in 1..Len(s) : TcMileageAt(s, i)}
    IN  IF hits = {} THEN 0
        ELSE extract_number(SubSeq(s, Least(hits), SkipDigitsCommas(s, Least(hits)) - 1))

\* A card of the page is a record of what the loop reads of it:
\*   title       the text of its h3 or h2, None if it has none
\*   price_text  the text of its vehicleCardPricingPrice element, None if none
\*   all_text    its inner text
\*   img         the src of its first img, None if it has none
\*   href        the href of its first link to /listing/, None if none

\* lines 251-256: with no title element and no year in the text, the title is
\* search_query, a name the function never binds on this path (params always
\* holds searchRadius, line 171): the NameError ends the turn of the loop
TcTitleRaises(card) == ~IsSet(card.title) /\ ~IsSet(TcYearMatch(card.all_text))
TcTitle(card) ==
    IF IsSet(card.title) THEN Strip(Val(card.title)) ELSE Val(TcYearMatch(card.all_text))

\* lines 258-261
TcPrice(card) ==
    IF IsSet(card.price_text) THEN extract_number(Val(card.price_text)) ELSE 0

\* lines 269-273
TcUrl(card) ==
    IF ~IsSet(card.href) THEN ""
    ELSE IF StartsWith(Val(card.href), "http") THEN Val(card.href)
    ELSE "https://www.truecar.com" \o Val(card.href)

\* lines 248-289: what one turn of the loop appends to results
TcExtractListing(card) ==
    IF TcTitleRaises(card) THEN <<>>
    ELSE IF TcPrice(card) > 0
    THEN << [name |-> TcTitle(card),
             price |-> TcPrice(card),
             mileage |-> TcMileageOf(card.all_text),
             image |-> IF IsSet(card.img) THEN Val(card.img) ELSE "",
             retailer |-> "TrueCar",
             url |-> TcUrl(card),
             location |-> "TrueCar"] >>
    ELSE <<>>

-----------------------------------------------------------------------------
(* scrape-truecar.py: scrape_truecar *)

\* line 303: `not search_filters`
NoFilters(f) == DOMAIN f = {}

\* a condition that asks for a make alone
UseGraphqlWithMake(f) == Truthy(Get(f, "make"))

\* line 307: the GraphQL channel is tried
UseGraphql(f) == Truthy(Get(f, "make")) /\ Truthy(Get(f, "model"))

\* a test that no result passes
GraphqlNeverSucceeded(results) == FALSE

\* line 309: `if results`
GraphqlSucceeded(results) == Truthy(results)

\* the most edges a response holds, and the most cards a page holds
MaxEdges == 2
MaxCards == 2

FilterKeys == {"make", "model", "bodyStyle"}
FilterValues(k) ==
    IF k = "make" THEN {None, Some(""), Some("GMC")}
    ELSE IF k = "model" THEN {None, Some(""), Some("Sierra 1500")}
    ELSE {None, Some("Truck")}
Filters ==
    UNION { {f \in [S -> UNION {FilterValues(k) : k \in FilterKeys}] :
                \A k \in S : f[k] \in FilterValues(k)} : S \in SUBSET FilterKeys }

\* filters that name a series, trims, a year or a drivetrain: for each key,
\* <<>> when the object has no such key and <<v>> when it holds the value v
UrlFilterChoices ==
    [make : {<<>>, <<None>>, <<Some("GMC")>>},
     model : {<<>>, <<Some("")>>, <<Some("Sierra 3500")>>},
     series : {<<>>, <<Some("3500HD")>>},
     trims : {<<>>, <<None>>, <<Some(<<"Denali Ultimate", "SLT">>)>>},
     year : {<<>>, <<Some("2021")>>},
     drivetrain : {<<>>, <<Some("4wd")>>}]
KeyValue(k, choice) == IF choice = <<>> THEN <<>> ELSE k :> choice[1]
UrlFilters ==
    {KeyValue("make", c.make) @@ KeyValue("model", c.model)
        @@ KeyValue("series", c.series) @@ KeyValue("trims", c.trims)
        @@ KeyValue("year", c.year) @@ KeyValue("drivetrain", c.drivetrain) :
            c \in UrlFilterChoices}

SampleEdges ==
    { [year |-> "2021", make |-> "GMC", model |-> "Sierra 1500",
       listPrice |-> Some(45000), mileage |-> Some(60000)],
      [year |-> "2019", make |-> "GMC", model |-> "Sierra 1500",
       listPrice |-> None, mileage |-> None],
      [year |-> "", make |-> "GMC", model |-> "Sierra 1500",
       listPrice |-> Some(0), mileage |-> Some(12)] }

RECURSIVE EdgeSeqs(_)
EdgeSeqs(n) ==
    IF n = 0 THEN {<<>>}
    ELSE LET P == EdgeSeqs(n - 1)
         IN  P \cup {Append(p, e) : p \in P, e \in SampleEdges}

Responses ==
    [aiohttp : BOOLEAN, raised : BOOLEAN, status : {200, 503}, errors : BOOLEAN,
     edges : EdgeSeqs(MaxEdges)]

SampleCards ==
    { [title |-> Some(" 2021 GMC Sierra 1500 Denali\n"), price_text |-> Some("$45,000"),
       all_text |-> "2021 GMC Sierra 1500 Denali\n$45,000\n60,000 mi",
       img |-> Some("https://img.truecar.com/1GT49.jpg"),
       href |-> Some("/used-cars-for-sale/listing/1GT49/")],
      [title |-> Some("Sponsored: 2021 GMC Sierra 1500"), price_text |-> Some("$45,000 "),
       all_text |-> "Sponsored\n2021 GMC Sierra 1500\n$45,000\n60,000 Miles",
       img |-> None,
       href |-> Some("/used-cars-for-sale/listing/1GT49/")],
      [title |-> None, price_text |-> None,
       all_text |-> "GMC Sierra 2019\nCall for price\n5 mi away",
       img |-> None,
       href |-> Some("https://www.truecar.com/used-cars-for-sale/listing/3GTU2/")],
      [title |-> None, price_text |-> Some("31,500"),
       all_text |-> "GMC Sierra\n31,500",
       img |-> None, href |-> None] }

RECURSIVE CardSeqs(_)
CardSeqs(n) ==
    IF n = 0 THEN {<<>>}
    ELSE LET P == CardSeqs(n - 1)
         IN  P \cup {Append(p, c) : p \in P, c \in SampleCards}

\* what the body of the page reads
TcPageTexts ==
    {"Used GMC Sierra 1500 for sale", "Access to this page has been denied"}

TcIdle ==
    /\ tc_pc = "idle"
    /\ tc_filters = <<>>
    /\ tc_max_results = 0
    /\ tc_graphql_calls = 0
    /\ tc_camoufox_calls = 0
    /\ tc_graphql_exit = ""
    /\ tc_graphql_results = None
    /\ tc_browser = "none"
    /\ tc_argv = ""
    /\ tc_search_url = ""
    /\ tc_page_text = ""
    /\ tc_cards = <<>>
    /\ tc_i = 0
    /\ tc_results = <<>>
    /\ tc_ret = None

\* the call scrape_truecar(search_filters, max_results) as it starts
TcInit ==
    /\ tc_pc = "entry"
    /\ tc_filters \in Filters
    /\ tc_max_results \in 1..MaxResults
    /\ tc_graphql_calls = 0
    /\ tc_camoufox_calls = 0
    /\ tc_graphql_exit = ""
    /\ tc_graphql_results = None
    /\ tc_browser = "none"
    /\ tc_argv = ""
    /\ tc_search_url = ""
    /\ tc_page_text = ""
    /\ tc_cards = <<>>
    /\ tc_i = 0
    /\ tc_results = <<>>
    /\ tc_ret = None

\* the same call with filters that name a series, trims or a year
TcInitUrl ==
    /\ tc_pc = "entry"
    /\ tc_filters \in UrlFilters
    /\ tc_max_results = 1
    /\ tc_graphql_calls = 0
    /\ tc_camoufox_calls = 0
    /\ tc_graphql_exit = ""
    /\ tc_graphql_results = None
    /\ tc_browser = "none"
    /\ tc_argv = ""
    /\ tc_search_url = ""
    /\ tc_page_text = ""
    /\ tc_cards = <<>>
    /\ tc_i = 0
    /\ tc_results = <<>>
    /\ tc_ret = None

\* a return statement of scrape_truecar, or of the channel it returns from
TcReturn(value) ==
    /\ tc_pc' = "returned"
    /\ tc_ret' = value

\* the first argument of the command line
TcArgs ==
    {"https://www.truecar.com/used-cars-for-sale/listings/inventory/?city=south-san-francisco&mmt[]=gmc_sierra&searchRadius=5000&state=ca",
     "GMC Sierra Denali",
     "{\"make\": \"GMC\", \"model\": \"Sierra 1500\"}",
     "{\"make\": \"GMC\", \"bodyStyle\": \"Truck\"}",
     " {\"model\": \"Sierra 1500\", \"bodyStyle\": null} ",
     "{}", "null", "\"GMC Sierra\""}

\* the script scrape-truecar.py as it starts, with its two arguments
TcInitMain ==
    /\ tc_pc = "main"
    /\ tc_argv \in TcArgs
    /\ tc_filters = <<>>
    /\ tc_max_results \in 1..MaxResults
    /\ tc_graphql_calls = 0
    /\ tc_camoufox_calls = 0
    /\ tc_graphql_exit = ""
    /\ tc_graphql_results = None
    /\ tc_browser = "none"
    /\ tc_search_url = ""
    /\ tc_page_text = ""
    /\ tc_cards = <<>>
    /\ tc_i = 0
    /\ tc_results = <<>>
    /\ tc_ret = None

\* lines 321-337 of main: the argument is parsed as JSON and scrape_truecar is
\* called with the value; a text that is no JSON is answered with "Invalid
\* JSON filters" and exit code 1, and a value that is true and no object
\* makes scrape_truecar raise at line 307
TcMain ==
    /\ tc_pc = "main"
    /\ IF JsonLoads(tc_argv) = "error"
       THEN tc_pc' = "rejected" /\ UNCHANGED <<tc_filters, tc_ret>>
       ELSE IF JsonLoads(tc_argv) = "dict"
       THEN tc_pc' = "entry" /\ tc_filters' = JsonObject(tc_argv) /\ UNCHANGED tc_ret
       ELSE IF FalsyJson(tc_argv)
       THEN TcReturn(Some(<<>>)) /\ UNCHANGED tc_filters
       ELSE tc_pc' = "raised" /\ UNCHANGED <<tc_filters, tc_ret>>
    /\ UNCHANGED <<tc_argv, tc_search_url, tc_page_text, tc_max_results,
                   tc_graphql_calls, tc_camoufox_calls, tc_graphql_exit,
                   tc_graphql_results, tc_browser, tc_cards, tc_i, tc_results>>
    /\ UNCHANGED <<normVars, cdpVars>>

\* lines 303-307: no filters, return []; else choose the channel to start with
TcEntry ==
    /\ tc_pc = "entry"
    /\ IF NoFilters(tc_filters) THEN TcReturn(Some(<<>>))
       ELSE /\ tc_pc' = IF UseGraphql(tc_filters) THEN "graphql" ELSE "camoufox"
            /\ UNCHANGED tc_ret
    /\ UNCHANGED <<tc_argv, tc_search_url, tc_page_text, tc_filters, tc_max_results, tc_graphql_calls, tc_camoufox_calls,
                   tc_graphql_exit, tc_graphql_results, tc_browser, tc_cards,
                   tc_i, tc_results>>
    /\ UNCHANGED <<normVars, cdpVars>>

\* lines 308-310: the call of scrape_truecar_graphql (lines 27-127), and the
\* return of its results if there are any
TcGraphql ==
    /\ tc_pc = "graphql"
    /\ \E resp \in Responses :
          LET results == scrape_truecar_graphql(tc_filters, resp)
          IN  /\ tc_graphql_exit' = GraphqlExit(tc_filters, resp)
              /\ tc_graphql_results' = results
              /\ IF GraphqlSucceeded(results) THEN TcReturn(results)
                 ELSE tc_pc' = "camoufox" /\ UNCHANGED tc_ret
    /\ tc_graphql_calls' = tc_graphql_calls + 1
    /\ UNCHANGED <<tc_argv, tc_search_url, tc_page_text, tc_filters, tc_max_results, tc_camoufox_calls, tc_browser,
                   tc_cards, tc_i, tc_results>>
    /\ UNCHANGED <<normVars, cdpVars>>

\* line 313 and lines 135-237: the call of scrape_truecar_camoufox, up to the
\* start of the browser; without the camoufox package [] is returned, and an
\* exception of the lines that build the URL leaves scrape_truecar
TcCamoufoxStart ==
    /\ tc_pc = "camoufox"
    /\ tc_camoufox_calls' = tc_camoufox_calls + 1
    /\ \E available \in BOOLEAN :
          IF ~available
          THEN TcReturn(Some(<<>>)) /\ UNCHANGED <<tc_browser, tc_search_url>>
          ELSE IF CamoufoxUrlRaises(tc_filters)
          THEN tc_pc' = "raised" /\ UNCHANGED <<tc_ret, tc_browser, tc_search_url>>
          ELSE /\ tc_pc' = "page"
               /\ tc_search_url' = SearchUrl(tc_filters)
               /\ tc_browser' = "open"
               /\ UNCHANGED tc_ret
    /\ UNCHANGED <<tc_argv, tc_page_text, tc_filters, tc_max_results, tc_graphql_calls, tc_graphql_exit,
                   tc_graphql_results, tc_cards, tc_i, tc_results>>
    /\ UNCHANGED <<normVars, cdpVars>>

\* lines 240-245: the page is loaded and its cards are collected
TcCamoufoxPage ==
    /\ tc_pc = "page"
    /\ tc_page_text' \in TcPageTexts
    /\ tc_cards' \in CardSeqs(MaxCards)
    /\ tc_i' = 1
    /\ tc_pc' = "extract"
    /\ UNCHANGED <<tc_argv, tc_search_url, tc_filters, tc_max_results, tc_graphql_calls, tc_camoufox_calls,
                   tc_graphql_exit, tc_graphql_results, tc_browser, tc_results,
                   tc_ret>>
    /\ UNCHANGED <<normVars, cdpVars>>

\* lines 247-289: one turn of the extraction loop; an exception raised by the
\* page while the card is read is caught and the loop goes on
TcCamoufoxExtract ==
    /\ tc_pc = "extract"
    /\ tc_i <= Len(Prefix(tc_cards, tc_max_results))
    /\ \E raised \in BOOLEAN :
          tc_results' = IF raised THEN tc_results
                        ELSE tc_results \o TcExtractListing(tc_cards[tc_i])
    /\ tc_i' = tc_i + 1
    /\ UNCHANGED <<tc_argv, tc_search_url, tc_page_text, tc_pc, tc_filters, tc_max_results, tc_graphql_calls,
                   tc_camoufox_calls, tc_graphql_exit, tc_graphql_results,
                   tc_browser, tc_cards, tc_ret>>
    /\ UNCHANGED <<normVars, cdpVars>>

\* lines 293-296 and 313: the loop is over, the browser is closed and results
\* is returned
TcCamoufoxFinish ==
    /\ tc_pc = "extract"
    /\ tc_i > Len(Prefix(tc_cards, tc_max_results))
    /\ tc_browser' = "closed"
    /\ TcReturn(Some(tc_results))
    /\ UNCHANGED <<tc_argv, tc_search_url, tc_page_text, tc_filters, tc_max_results, tc_graphql_calls, tc_camoufox_calls,
                   tc_graphql_exit, tc_graphql_results, tc_cards, tc_i, tc_results>>
    /\ UNCHANGED <<normVars, cdpVars>>

\* lines 291-296: an exception while the page is loaded or its cards are
\* collected is caught, the browser is closed and results is returned
TcCamoufoxError ==
    /\ tc_pc = "page"
    /\ tc_browser' = "closed"
    /\ TcReturn(Some(tc_results))
    /\ UNCHANGED <<tc_argv, tc_search_url, tc_page_text, tc_filters, tc_max_results, tc_graphql_calls, tc_camoufox_calls,
                   tc_graphql_exit, tc_graphql_results, tc_cards, tc_i, tc_results>>
    /\ UNCHANGED <<normVars, cdpVars>>

-----------------------------------------------------------------------------
(* Specifications: one per script *)

InitNorm == NormInit /\ CdpIdle /\ TcIdle
NextNorm == ParseWithPatterns
SpecNorm == InitNorm /\ [][NextNorm]_vars

\* the normalizer on the other families of queries
InitPhrases == NormInitPhrases /\ CdpIdle /\ TcIdle
SpecPhrases == InitPhrases /\ [][NextNorm]_vars
InitWords == NormInitWords /\ CdpIdle /\ TcIdle
SpecWords == InitWords /\ [][NextNorm]_vars
InitScenario == NormInitScenario /\ CdpIdle /\ TcIdle
SpecScenario == InitScenario /\ [][NextNorm]_vars

\* parse_with_llm
InitLlm == NormInitLlm /\ CdpIdle /\ TcIdle
NextLlm == ParseWithLlmEntry \/ ParseWithLlmReply
SpecLlm == InitLlm /\ [][NextLlm]_vars

InitCdp == CdpInit /\ NormIdle /\ TcIdle
NextCdp ==
    \/ CdpConnect
    \/ CdpGoto
    \/ CdpScroll
    \/ CdpClassify
    \/ CdpQueryListings
    \/ CdpDedupe
    \/ CdpExtract
    \/ CdpFinish
    \/ CdpError
SpecCdp == InitCdp /\ [][NextCdp]_vars

\* the script runs on: a turn of the scroll loop that can be made is made
SpecCdpLive == InitCdp /\ [][NextCdp]_vars /\ WF_vars(CdpScroll)

InitTruecar == TcInit /\ NormIdle /\ CdpIdle
NextTruecar ==
    \/ TcEntry
    \/ TcGraphql
    \/ TcCamoufoxStart
    \/ TcCamoufoxPage
    \/ TcCamoufoxExtract
    \/ TcCamoufoxFinish
    \/ TcCamoufoxError
SpecTruecar == InitTruecar /\ [][NextTruecar]_vars

\* scrape_truecar on the filters that name a series, trims or a year
InitTruecarUrl == TcInitUrl /\ NormIdle /\ CdpIdle
SpecTruecarUrl == InitTruecarUrl /\ [][NextTruecar]_vars

\* the script scrape-truecar.py, from its command line
InitTruecarMain == TcInitMain /\ NormIdle /\ CdpIdle
NextTruecarMain == TcMain \/ NextTruecar
SpecTruecarMain == InitTruecarMain /\ [][NextTruecarMain]_vars

-----------------------------------------------------------------------------
(* Claims *)

\* the deduplication loop of scrape_autotrader_cdp has run
CdpDeduped == cdp_pc = "extract" \/ cdp_exit = "end"

\* seq is listings read at the indexes S, in order
RECURSIVE PickedAt(_, _, _)
PickedAt(ls, S, k) ==
    IF k > Len(ls) THEN <<>>
    ELSE (IF k \in S THEN <<ls[k]>> ELSE <<>>) \o PickedAt(ls, S, k + 1)

(* C3: the deduplication of the CDP scraper returns a subsequence of the    *)
(* links it is given, in which no two links share a vehicle id, and the     *)
(* link kept for a vehicle id is the first link of the page with that id.   *)
C3_DedupeFirstSeen ==
    CdpDeduped =>
        \E S \in SUBSET (1..Len(cdp_listings)) :
            /\ cdp_unique_listings = PickedAt(cdp_listings, S, 1)
            /\ \A a, b \in S :
                  (a # b /\ VehicleId(cdp_listings[a].href) # None)
                      => VehicleId(cdp_listings[a].href) # VehicleId(cdp_listings[b].href)
            /\ \A j \in 1..Len(cdp_listings) :
                  VehicleId(cdp_listings[j].href) # None =>
                      \E a \in S :
                          /\ a <= j
                          /\ VehicleId(cdp_listings[a].href) = VehicleId(cdp_listings[j].href)
                          /\ \A b \in 1..(a - 1) :
                                VehicleId(cdp_listings[b].href) # VehicleId(cdp_listings[a].href)

\* two links of one vehicle were on the page, a third link of another, and
\* the loop kept one link for each vehicle
C3_Witness ==
    /\ CdpDeduped
    /\ Len(cdp_unique_listings) = 2
    /\ Len(cdp_listings) = 3
    /\ VehicleId(cdp_listings[1].href) = VehicleId(cdp_listings[3].href)
    /\ cdp_listings[1] # cdp_listings[3]
    /\ cdp_unique_listings[1] = cdp_listings[1]

\* the key of a link with no vehicle id: its title, price and mileage
CompositeKey(link) ==
    <<Lower(Strip(link.text)), PriceOf(AllText(link.anc)), MileageOf(AllText(link.anc))>>

(* C4: a link from which no vehicle id can be derived is not lost by the    *)
(* deduplication: a link with the same (title, price, mileage) is kept, and *)
(* two id-less links with one key collapse to the first.                    *)
C4_IdlessKeptByCompositeKey ==
    CdpDeduped =>
        \A j \in 1..Len(cdp_listings) :
            VehicleId(cdp_listings[j].href) = None =>
                Cardinality({k \in 1..Len(cdp_unique_listings) :
                    /\ VehicleId(cdp_unique_listings[k].href) = None
                    /\ CompositeKey(cdp_unique_listings[k]) = CompositeKey(cdp_listings[j])}) = 1

\* some phrase of the list occurs in the text, letter case ignored or not
Mentions(text, phrases, ignore_case) ==
    \E k \in 1..Len(phrases) :
        IF ignore_case THEN Contains(Lower(text), Lower(phrases[k]))
        ELSE Contains(text, phrases[k])

\* the page's text has been read and checked
CdpClassified == cdp_pc = "query" \/ cdp_exit \in {"blocked", "no_results"}

(* C9: the bot-defense phrases are checked first and the no-inventory       *)
(* phrases second: a text with a bot-defense phrase (case ignored) is       *)
(* BLOCKED even with a no-inventory phrase in it; a text with none and with *)
(* a no-inventory phrase is NO_RESULTS; every other text is USABLE.         *)
C9_ClassifyOrder ==
    CdpClassified =>
        IF Mentions(cdp_page_text, bot_detection_indicators, TRUE)
        THEN cdp_exit = "blocked"
        ELSE IF Mentions(cdp_page_text, no_results_indicators, FALSE)
        THEN cdp_exit = "no_results"
        ELSE cdp_pc = "query" /\ cdp_exit = ""

\* a text with a bot-defense phrase in another letter case than the list's,
\* and with a no-inventory phrase, was classified BLOCKED
C9_Witness ==
    /\ cdp_exit = "blocked"
    /\ ~Mentions(cdp_page_text, bot_detection_indicators, FALSE)
    /\ Mentions(cdp_page_text, no_results_indicators, FALSE)

(* C10: once the text of the page holds a bot-defense phrase or a           *)
(* no-inventory phrase, the CDP scraper has returned an empty list: no link *)
(* was collected, no candidate extracted, no listing emitted.               *)
C10_BlockedReturnsEmpty ==
    (\/ Mentions(cdp_page_text, bot_detection_indicators, TRUE)
     \/ Mentions(cdp_page_text, no_results_indicators, FALSE))
        => /\ cdp_pc = "returned"
           /\ cdp_ret = Some(<<>>)
           /\ cdp_listings = <<>>
           /\ cdp_unique_listings = <<>>
           /\ cdp_i = 0
           /\ cdp_results = <<>>

\* the page reads "Access to this page has been denied", and [] was returned
C10_Witness ==
    /\ Contains(cdp_page_text, "Access to this page has been denied")
    /\ cdp_pc = "returned"
    /\ cdp_ret = Some(<<>>)

\* a page with a no-inventory phrase and no bot-defense phrase returned []
C10_WitnessNoResults ==
    /\ cdp_exit = "no_results"
    /\ cdp_ret = Some(<<>>)

(* C1: whenever the normalizer has returned and both minPrice and maxPrice *)
(* are set, minPrice <= maxPrice.                                          *)
C1_MinLeMax ==
    (npc = "done" /\ IsSet(structured.minPrice) /\ IsSet(structured.maxPrice))
        => Val(structured.minPrice) <= Val(structured.maxPrice)

\* scrape_truecar has returned or has raised
TcEnded == tc_pc \in {"returned", "raised"}

(* C2: every listing of an array a scraper returns has a price above 0,     *)
(* through either channel of the TrueCar scraper.                           *)
C2_PricePositive ==
    tc_pc = "returned" =>
        \A k \in 1..Len(Val(tc_ret)) : Val(tc_ret)[k].price > 0

\* the vehicle a listing URL points to, None for a URL of no listing
TcVehicleOf(url) == IF Contains(url, "/listing/") THEN Some(url) ELSE None

(* C5: the array a retailer's scraper returns holds at most one listing per *)
(* vehicle its listing URLs point to.                                       *)
C5_OneListingPerVehicle ==
    tc_pc = "returned" =>
        \A a, b \in 1..Len(Val(tc_ret)) :
            (a # b /\ IsSet(TcVehicleOf(Val(tc_ret)[a].url)))
                => TcVehicleOf(Val(tc_ret)[a].url) # TcVehicleOf(Val(tc_ret)[b].url)

(* C6: each channel is started at most once; when the GraphQL channel has   *)
(* returned at least one listing, scrape_truecar returns exactly that list  *)
(* and the Camoufox channel is never started; in every other run with       *)
(* filters that are not empty, scrape_truecar ends after exactly one run of *)
(* the Camoufox channel.                                                    *)
C6_TwoChannelMachine ==
    /\ tc_graphql_calls <= 1 /\ tc_camoufox_calls <= 1
    /\ (IsSet(tc_graphql_results) /\ Len(Val(tc_graphql_results)) >= 1) =>
          /\ tc_pc = "returned"
          /\ tc_ret = tc_graphql_results
          /\ tc_camoufox_calls = 0
          /\ tc_browser = "none"
    /\ (/\ TcEnded
        /\ ~(IsSet(tc_graphql_results) /\ Len(Val(tc_graphql_results)) >= 1)
        /\ DOMAIN tc_filters # {}) => tc_camoufox_calls = 1

\* the GraphQL channel returned two listings and they were returned
C6_Witness ==
    /\ tc_pc = "returned"
    /\ tc_graphql_calls = 1
    /\ Len(Val(tc_graphql_results)) = 2
    /\ tc_ret = tc_graphql_results

\* the GraphQL channel returned nothing, the Camoufox channel ran and its
\* listing was returned
C6_WitnessRendered ==
    /\ tc_pc = "returned"
    /\ tc_graphql_calls = 1
    /\ tc_graphql_results = None
    /\ tc_camoufox_calls = 1
    /\ Len(Val(tc_ret)) = 1

\* the ways the GraphQL channel fails: no aiohttp, a status other than 200,
\* an exception or a timeout, an errors key, no edge
RecoverableExits == {"import_error", "status", "exception", "errors", "empty"}

(* C7: when the GraphQL channel has failed in one of the recoverable ways,  *)
(* scrape_truecar ends after one run of the Camoufox channel, and what it   *)
(* returns is the results of that channel, each listing made of a card of   *)
(* the page.                                                                *)
C7_FallbackToRendered ==
    (TcEnded /\ tc_graphql_exit \in RecoverableExits) =>
        /\ tc_camoufox_calls = 1
        /\ tc_pc = "returned" =>
              /\ tc_ret = Some(tc_results)
              /\ \A k \in 1..Len(tc_results) :
                    \E c \in 1..Len(tc_cards) :
                        TcExtractListing(tc_cards[c]) = <<tc_results[k]>>

\* the response had an errors key, and a listing of the page was returned
C7_Witness ==
    /\ tc_pc = "returned"
    /\ tc_graphql_exit = "errors"
    /\ tc_camoufox_calls = 1
    /\ Len(Val(tc_ret)) >= 1

\* the filters hold a make and a model, neither null nor empty
HasMakeAndModel(f) ==
    /\ "make" \in DOMAIN f /\ f["make"] # None /\ f["make"] # Some("")
    /\ "model" \in DOMAIN f /\ f["model"] # None /\ f["model"] # Some("")

(* C8, as stated: the GraphQL channel is called only with a make and a      *)
(* model; without both, scrape_truecar ends with no call of the GraphQL     *)
(* channel and one run of the Camoufox channel.                             *)
C8_AsStated ==
    /\ tc_graphql_calls > 0 => HasMakeAndModel(tc_filters)
    /\ (TcEnded /\ ~HasMakeAndModel(tc_filters)) =>
          tc_graphql_calls = 0 /\ tc_camoufox_calls = 1

(* C8: the GraphQL channel is called only with a make and a model; without  *)
(* both, and with filters that hold at least one key, scrape_truecar ends   *)
(* with no call of the GraphQL channel and one run of the Camoufox channel; *)
(* with no key at all it returns [] and runs neither channel.               *)
C8_FastOnlyWithMakeAndModel ==
    /\ tc_graphql_calls > 0 => HasMakeAndModel(tc_filters)
    /\ (TcEnded /\ ~HasMakeAndModel(tc_filters) /\ DOMAIN tc_filters # {}) =>
          tc_graphql_calls = 0 /\ tc_camoufox_calls = 1
    /\ (TcEnded /\ DOMAIN tc_filters = {}) =>
          tc_graphql_calls = 0 /\ tc_camoufox_calls = 0 /\ tc_ret = Some(<<>>)

\* filters with a make and no model went to the Camoufox channel alone
C8_Witness ==
    /\ tc_pc = "returned"
    /\ Get(tc_filters, "make") = Some("GMC")
    /\ "model" \notin DOMAIN tc_filters
    /\ tc_graphql_calls = 0
    /\ tc_camoufox_calls = 1

(* C11: a rendered channel extracts listings only from a page it has        *)
(* classified USABLE, and it deduplicates before it returns: the TrueCar    *)
(* Camoufox channel holds a listing only if the text of its page is         *)
(* USABLE, and never two listings of one listing URL.                       *)
C11_ClassifyBeforeExtract ==
    /\ tc_results # <<>> => Classify(tc_page_text) = "USABLE"
    /\ \A a, b \in 1..Len(tc_results) :
          (a # b /\ IsSet(TcVehicleOf(tc_results[a].url)))
              => tc_results[a].url # tc_results[b].url

(* C12: no run of a rendered-channel scraper ends with the browser it       *)
(* acquired left open: when scrape_autotrader_cdp has returned, the browser *)
(* it connected to is not open.                                             *)
C12_BrowserClosedOnExit ==
    cdp_pc = "returned" => cdp_browser # "open"

\* the card of Scenario 4 is in the ancestors of the link
ScenarioCard(link) ==
    /\ Contains(AllText(link.anc), "$103,615")
    /\ Contains(AllText(link.anc), "60,000 mi")

(* C20: a listing extracted by the CDP scraper from a link whose ancestor   *)
(* text holds "$103,615" and "60,000 mi" has price 103615 and mileage       *)
(* 60000.                                                                   *)
C20_RegexFallbackScenario ==
    \A k \in 1..Len(cdp_results) :
        \A j \in 1..Len(cdp_unique_listings) :
            (/\ ScenarioCard(cdp_unique_listings[j])
             /\ ExtractListing(cdp_unique_listings[j]) # <<>>
             /\ cdp_results[k].url = ExtractListing(cdp_unique_listings[j])[1].url)
                => cdp_results[k].price = 103615 /\ cdp_results[k].mileage = 60000

\* the text fields of the canonical query, and its lists of texts
TextFields(st) ==
    {st.drivetrain, st.fuelType, st.bodyType, st.exteriorColor}
ListFields(st) == {st.makes, st.models, st.trims, st.features}

(* C13: the canonical query the normalizer returns leaves a field with no   *)
(* signal unset: no text field of it is the empty string, and no list of it *)
(* holds the empty string.                                                  *)
C13_NeverEmptyString ==
    npc = "done" =>
        /\ \A o \in TextFields(structured) : o # Some("")
        /\ \A l \in ListFields(structured) : \A k \in 1..Len(l) : l[k] # ""

\* the order of the price patterns as the claim gives it
ClaimedOrder ==
    <<"under", "below", "less than", "max", "up to", "-", "between">>
RECURSIVE ClaimedPrice(_, _)
ClaimedPrice(s, k) ==
    IF k > Len(ClaimedOrder) THEN <<None, None>>
    ELSE LET m == PatternSearch(s, ClaimedOrder[k])
         IN  IF m # <<>>
             THEN (IF Len(m) = 2 THEN <<Some(ParseInt(m[1])), Some(ParseInt(m[2]))>>
                   ELSE <<None, Some(ParseInt(m[1]))>>)
             ELSE ClaimedPrice(s, k + 1)

(* C14: the price patterns are tried in the order under, below, less than,  *)
(* max, up to, A-B, between A and B, and the first that matches sets the    *)
(* prices: a text with "up to N" and a pair "A-B" gets maxPrice = N and no  *)
(* minPrice.                                                                *)
C14_PricePatternOrder ==
    npc = "done" =>
        <<structured.minPrice, structured.maxPrice>> = ClaimedPrice(Lower(query), 1)

\* no entry of the list occurs twice
NoDuplicates(l) == \A a, b \in 1..Len(l) : a # b => l[a] # l[b]

(* C15: makes, models and trims of the canonical query hold no entry twice. *)
C15_NoDuplicateEntries ==
    npc = "done" =>
        /\ NoDuplicates(structured.makes)
        /\ NoDuplicates(structured.models)
        /\ NoDuplicates(structured.trims)

ModelDetectors ==
    << [keys |-> {"sierra", "silverado"},
        names |-> {"Sierra", "Sierra 3500", "Silverado", "Silverado 1500"}],
       [keys |-> {"f-150", "f150"}, names |-> {"F-150"}],
       [keys |-> {"rav4"}, names |-> {"RAV4"}],
       [keys |-> {"cr-v", "crv"}, names |-> {"CR-V"}],
       [keys |-> {"wrangler"}, names |-> {"Wrangler"}],
       [keys |-> {"grand cherokee"}, names |-> {"Grand Cherokee"}],
       [keys |-> {"tacoma"}, names |-> {"Tacoma"}],
       [keys |-> {"tundra"}, names |-> {"Tundra"}],
       [keys |-> {"camry"}, names |-> {"Camry"}],
       [keys |-> {"corvette"}, names |-> {"Corvette"}],
       [keys |-> {"mustang"}, names |-> {"Mustang"}] >>
Fires(d, ql) == \E key \in ModelDetectors[d].keys : Contains(ql, key)

(* C17: models has at most one entry, the name emitted by the first         *)
(* detector, in the order Sierra/Silverado, F-150, RAV4, CR-V, Wrangler,    *)
(* Grand Cherokee, Tacoma, Tundra, Camry, Corvette, Mustang, that the text  *)
(* fires; the detectors after it add nothing.                               *)
C17_FirstDetectorWins ==
    npc = "done" =>
        LET ql == Lower(query)
            fired == {d \in 1..Len(ModelDetectors) : Fires(d, ql)}
        IN  IF fired = {} THEN structured.models = <<>>
            ELSE /\ Len(structured.models) = 1
                 /\ structured.models[1] \in ModelDetectors[Least(fired)].names

\* a text with "mustang" before "tacoma" gave Tacoma alone
C17_Witness ==
    /\ npc = "done"
    /\ query = "mustang tacoma "
    /\ structured.models = <<"Tacoma">>

\* the replies whose parsing fails: no reply at all, or a text that is not
\* one JSON object once its markdown fence is off
FailedReply(reply) ==
    \/ reply.kind \in {"raises", "no_choices", "no_content"}
    \/ reply.content \in
          {"'''{\"structured\": {}}'''", "'''json\n[]\n'''", "[]", "null",
           "42", "\"Sierra\"", "", "I cannot parse that.",
           "{\"structured\": }", "{\"structured\": {}} done"}

(* C18: when the NL library is missing, no credential is given, or the call *)
(* or the parsing of its reply fails, parse_with_llm returns what           *)
(* parse_with_patterns(query, catalog) returns; it always returns.          *)
C18_FallbackToPatterns ==
    /\ llm_pc = "returned" => IsSet(llm_ret)
    /\ (/\ llm_pc = "returned"
        /\ \/ ~llm_available
           \/ api_key \in {None, Some("")}
           \/ FailedReply(llm_reply))
          => /\ llm_exit # "parsed"
             /\ llm_ret = Some(PatternsResult(query, catalog))

\* a reply that is a list in a markdown fence sent the call to the patterns
C18_Witness ==
    /\ llm_pc = "returned"
    /\ llm_reply = [kind |-> "content", content |-> "'''json\n[]\n'''"]
    /\ query = "GMC Sierra Denali under $50000"
    /\ llm_ret = Some(PatternsResult(query, catalog))

\* no credential sent the call to the patterns
C18_WitnessNoKey ==
    /\ llm_pc = "returned"
    /\ llm_available
    /\ api_key = None
    /\ llm_exit = "unavailable"

\* a reply that is an object in a markdown fence was returned
C18_WitnessParsed ==
    /\ llm_pc = "returned"
    /\ llm_exit = "parsed"
    /\ llm_reply.content = "'''json\n{\"structured\": {}}\n'''"
    /\ Val(llm_ret).json = "{\"structured\": {}}"

\* no pattern with a price keyword matches the text
NoPriceKeyword(ql) ==
    \A kw \in {"under", "below", "less than", "max", "between", "up to"} :
        PatternSearch(ql, kw) = <<>>

\* the text has a hyphenated pair of numbers, and each one lies in a model-year
\* range "2018-2022"
OnlyYearRanges(ql) ==
    /\ Contains(ql, "2018-2022")
    /\ \A i \in 1..Len(ql) :
          RangeAt(ql, i) # <<>>
              => \E j \in (i - 3)..i : StartsWithAt(ql, j, "2018-2022")

(* C30: minPrice and maxPrice come from price expressions only: a text with *)
(* no price phrase whose only hyphenated pair of numbers is a range of      *)
(* model years such as "2018-2022" leaves both unset.                       *)
C30_YearRangeIsNoPrice ==
    (npc = "done" /\ NoPriceKeyword(Lower(query)) /\ OnlyYearRanges(Lower(query)))
        => structured.minPrice = None /\ structured.maxPrice = None

\* a turn of the scroll loop that stays in the loop
ScrollGoesOn ==
    /\ cdp_pc = "scroll"
    /\ cdp_pc' = "scroll"

(* C26: the scroll loop ends: it makes at most 15 scroll attempts, every    *)
(* turn that stays in the loop is one more attempt, made only when the      *)
(* count of links is below max_results and differs from the count of the    *)
(* turn before, and the loop is left in the end.                            *)
C26_ScrollLoopEnds ==
    /\ [](cdp_scroll_attempts <= max_scroll_attempts)
    /\ [][ScrollGoesOn =>
            /\ cdp_scroll_attempts' = cdp_scroll_attempts + 1
            /\ cdp_last_listing_count' < cdp_max_results
            /\ cdp_last_listing_count' # cdp_last_listing_count]_vars
    /\ (cdp_pc = "scroll") ~> (cdp_pc # "scroll")

\* the loop made its 15 attempts, the page showing a new count every time
C26_Witness ==
    /\ cdp_pc = "scroll"
    /\ cdp_scroll_attempts = max_scroll_attempts

(* C27: the array a scraper returns holds at most max_results listings,     *)
(* through either channel of the TrueCar scraper, also when the GraphQL     *)
(* response has more edges than were asked for.                             *)
C27_AtMostMaxResults ==
    tc_pc = "returned" => Len(Val(tc_ret)) <= tc_max_results

(* C21: scrape_truecar absorbs the errors of its channels: for every filter *)
(* object, also one that holds an optional field with the value null, it    *)
(* returns a list and never raises.                                         *)
C21_NeverRaises ==
    /\ tc_pc # "raised"
    /\ tc_pc = "returned" => IsSet(tc_ret)

\* a comma-grouped numeric token of 4 to 6 digits starts at i: the index
\* after it, 0 if none
TokenAt(s, i) ==
    LET e == SkipDigits(s, i)
    IN  IF /\ i <= Len(s) /\ IsDigit(Ch(s, i))
           /\ (i = 1 \/ ~(IsDigit(Ch(s, i - 1)) \/ Ch(s, i - 1) = ","))
           /\ e - i \in 1..3
           /\ StartsWithAt(s, e, ",")
           /\ SkipDigits(s, e + 1) = e + 4
           /\ ~StartsWithAt(s, e + 4, ",")
        THEN e + 4 ELSE 0

\* the starts of the tokens whose value is in 5,000..500,000 and not in
\* 1900..2100
QualifyingTokens(s) ==
    {i \in 1..Len(s) :
        /\ TokenAt(s, i) # 0
        /\ LET n == extract_number(SubSeq(s, i, TokenAt(s, i) - 1))
           IN  5000 <= n /\ n <= 500000 /\ ~(1900 <= n /\ n <= 2100)}

\* the links the extraction loop has read the text of
CdpProcessed ==
    IF cdp_pc \in {"extract", "returned"}
    THEN {cdp_unique_listings[j] : j \in 1..(cdp_i - 1)}
    ELSE {}

(* C25: for a candidate whose text has no "$" amount, the price is the last *)
(* comma-grouped token of 4 to 6 digits with a value in 5,000..500,000 and  *)
(* not in 1900..2100: a text whose only such token is "103,615" gives the   *)
(* price 103615.                                                            *)
C25_LastQualifyingToken ==
    \A link \in CdpProcessed :
        LET all_text == AllText(link.anc)
            Q == QualifyingTokens(all_text)
            last == CHOOSE i \in Q : \A j \in Q : j <= i
        IN  (~SkippedTitle(Strip(link.text)) /\ DollarAmount(all_text) = None /\ Q # {})
                => PriceOf(all_text)
                     = extract_number(SubSeq(all_text, last, TokenAt(all_text, last) - 1))

\* the link has a valid title and a positive price in the text of its
\* ancestors: read by the extraction loop, it gives a listing
ValidLink(link) ==
    /\ ~SkippedTitle(Strip(link.text))
    /\ PriceOf(AllText(link.anc)) > 0

(* C28: on a usable page, a vehicle that is among the first max_results     *)
(* distinct vehicle ids and has a link with a valid title and a positive    *)
(* price has a listing in the output, wherever that link stands among the   *)
(* links of the vehicle (unless the read of the link kept for the vehicle   *)
(* raised).                                                                 *)
C28_VehicleWithValidLinkListed ==
    cdp_exit = "end" =>
        \A j \in 1..Len(Prefix(cdp_unique_listings, cdp_max_results)) :
            LET id == VehicleId(cdp_unique_listings[j].href)
            IN  (\E k \in 1..Len(cdp_listings) :
                    /\ VehicleId(cdp_listings[k].href) = id
                    /\ ValidLink(cdp_listings[k]))
                    => \/ \E r \in 1..Len(cdp_results) :
                              VehicleId(cdp_results[r].url) = id
                       \/ ValidLink(cdp_unique_listings[j])

(* C22: the output of a run tells "no listings found" from "could not       *)
(* acquire listings": a run that failed to load the page (an exception, no  *)
(* connection) or met a BLOCKED page never emits what a run on a loaded     *)
(* page with no listings emits.                                             *)
C22_FailureToldFromEmpty ==
    (cdp_pc = "returned" /\ cdp_exit \in {"connect_failed", "blocked", "error"})
        => CdpMainOutput(cdp_ret) # CdpMainOutput(Some(<<>>))

(* C23: with no make and model pair in the filters, the TrueCar adapter     *)
(* requests its free-text search URL (searchQuery=...), not the structured  *)
(* inventory URL.                                                           *)
C23_TextSearchWithoutMakeModel ==
    (tc_search_url # "" /\ ~HasMakeAndModel(tc_filters))
        => /\ Contains(tc_search_url, "/listings/?searchQuery=")
           /\ ~Contains(tc_search_url, "/listings/inventory/")

(* C29: the request of the rendered channel has an mmt[] parameter only     *)
(* when make and model are both set, and its value never starts with "_"    *)
(* or "-", also for filters with trims or a series and no make or no model. *)
C29_MmtNeedsMakeAndModel ==
    tc_search_url # "" =>
        /\ Contains(tc_search_url, "mmt[]=") => HasMakeAndModel(tc_filters)
        /\ ~Contains(tc_search_url, "mmt[]=_")
        /\ ~Contains(tc_search_url, "mmt[]=-")

\* the argument is a URL or a query in plain words
UrlOrQuery(arg) ==
    \/ StartsWith(arg, "http")
    \/ \A i \in 1..Len(arg) :
          Ch(arg, i) \in UpperCase \cup LowerCase \cup Digits \cup {" "}

(* C24: an entry point takes a query string or a URL as its first argument  *)
(* and goes on to the acquisition: scrape-truecar.py called with a TrueCar  *)
(* URL, as the test suite calls it, runs the scrape and does not reject the *)
(* argument.                                                                *)
C24_UrlOrQueryAccepted ==
    (tc_argv # "" /\ UrlOrQuery(tc_argv)) => tc_pc # "rejected"

====
